---- MODULE Spec2Model ----
(***************************************************************************)
(* Workflows of rulala/fac-ws_ai_multi-agent as state machines.            *)
(*                                                                         *)
(* A run of a LangGraph workflow is: a state dictionary (keys are absent   *)
(* until a node writes them), the node that runs next, and the LLM, whose  *)
(* responses are the inputs of the run.  A node reads the state, calls the *)
(* LLM with a prompt, and returns an update that is merged into the state; *)
(* the edges of the graph (conditional edges are evaluated on the merged   *)
(* state) give the node that runs next.                                    *)
(***************************************************************************)
EXTENDS Integers, Sequences, FiniteSets, TLC

VARIABLES
    prog,       \* the program (source file) this run is a run of
    radon,      \* whether the radon package can be imported where the run takes place
    pc,         \* the node that runs next; "END" when the run has ended
    state,      \* the workflow state: a dictionary from keys to values
    prompt,     \* the arguments of the most recent LLM call, with the calling node
    response,   \* the content of the most recent LLM response
    nGen,       \* number of generator / coder calls made
    nEval,      \* number of evaluator calls made
    nOpt,       \* number of optimiser / improver calls made
    active,     \* the nodes of the current parallel step that have not returned yet
    writes,     \* the updates returned so far in the current parallel step, by node
    log,        \* the nodes executed so far in the run, each with its outcome
    report      \* the summary written by the Codebase generator after the run

vars == <<prog, radon, pc, state, prompt, response, nGen, nEval, nOpt,
          active, writes, log, report>>

-----------------------------------------------------------------------------
(* Bounds of the model *)

\* evaluator scores are drawn from threshold - ScoreSpread .. threshold + ScoreSpread
ScoreSpread == 1

\* simple/02_conditional_workflow has no counter of its own: improver calls are
\* explored up to this many
MaxCalls == 6

\* the longest list of subtasks the orchestrator's LLM returns
MaxSubtasks == 2

-----------------------------------------------------------------------------
(* Python dictionaries *)

EmptyDict == [k \in {} |-> TRUE]

\* d.get(k, default)
Get(d, k, default) == IF k \in DOMAIN d THEN d[k] ELSE default

\* the update a node returns, merged into the state (every key is a last-value channel)
Merge(s, update) ==
    [k \in (DOMAIN s) \cup (DOMAIN update) |->
        IF k \in DOMAIN update THEN update[k] ELSE s[k]]

\* truth value of a dictionary: empty is false
Truthy(d) == DOMAIN d # {}

-----------------------------------------------------------------------------
(* The programs *)

P05  == "patterns/05_evaluator_optimiser"
S05R == "solution/05_evaluator_optimisr"
S05  == "solution/05_evaluator_optimiser"
PS05 == "patterns_simple/05_evaluator_optimiser"
S02  == "simple/02_conditional_workflow"

\* workflow.invoke({"input": task})
InitialState == [input |-> "task"]

NoPrompt == [node |-> "none"]
NoResponse == <<>>

\* The LLM writes a new artifact on every call that asks for code: the artifact
\* written by the n-th such call of the run.
NewCode == [id |-> nGen + nOpt + 1]

\* "Quality score from 1-10"
MIN_SCORE == 1
MAX_SCORE == 10

\* The scores drawn for the evaluations that are kept in a history: around a threshold
ScoreInputs(threshold) == (threshold - ScoreSpread) .. (threshold + ScoreSpread)

\* The feedback text of the n-th evaluation of the run
NewFeedback == [eval |-> nEval + 1]

-----------------------------------------------------------------------------
(* patterns/05_evaluator_optimiser.py *)

P05_MAX_ITERATIONS == 3
P05_QUALITY_THRESHOLD == 8

P05_EvaluationResponses ==
    [score : MIN_SCORE .. MAX_SCORE,
     feedback : {NewFeedback},
     should_continue : BOOLEAN]

P05_generator_prompt(s) ==
    [node |-> "generator",
     input |-> s["input"],
     feedback |-> IF Truthy(Get(s, "current_evaluation", EmptyDict))
                  THEN <<"Previous feedback: ", s["current_evaluation"]["feedback"]>>
                  ELSE <<>>]

P05_code_generator(s, r) ==
    [code |-> r, iteration_count |-> Get(s, "iteration_count", 0)]

P05_evaluator_prompt(s) == [node |-> "evaluator", code |-> s["code"]]

P05_evaluator_agent(s, r) ==
    [current_evaluation |->
        [score |-> r.score, feedback |-> r.feedback,
         should_continue |-> r.should_continue]]

\* mutant: the optimiser is prompted without the evaluation's feedback
P05_optimiser_prompt_nofeedback(s) ==
    [node |-> "optimiser", code |-> s["code"], feedback |-> <<>>]

P05_optimiser_prompt(s) ==
    [node |-> "optimiser", code |-> s["code"],
     feedback |-> s["current_evaluation"]["feedback"]]

\* mutant: the optimised code is written to a key the evaluator does not read
P05_optimiser_agent_wrongkey(s, r) ==
    [optimised_code |-> r, iteration_count |-> s["iteration_count"] + 1]

P05_optimiser_agent(s, r) ==
    [code |-> r, iteration_count |-> s["iteration_count"] + 1]

P05_finalise_code(s) == [final_code |-> s["code"]]

\* mutant: the cap is compared with > instead of >=
P05_should_continue_optimisation_offbyone(s) ==
    LET current_eval == Get(s, "current_evaluation", EmptyDict)
        iteration_count == Get(s, "iteration_count", 0)
    IN  IF iteration_count > P05_MAX_ITERATIONS THEN "finalise"
        ELSE IF ~Get(current_eval, "should_continue", TRUE) THEN "finalise"
        ELSE IF Get(current_eval, "score", 0) >= P05_QUALITY_THRESHOLD THEN "finalise"
        ELSE "optimise"

\* mutant: the threshold is compared with > instead of >=
P05_should_continue_optimisation_strict(s) ==
    LET current_eval == Get(s, "current_evaluation", EmptyDict)
        iteration_count == Get(s, "iteration_count", 0)
    IN  IF iteration_count >= P05_MAX_ITERATIONS THEN "finalise"
        ELSE IF ~Get(current_eval, "should_continue", TRUE) THEN "finalise"
        ELSE IF Get(current_eval, "score", 0) > P05_QUALITY_THRESHOLD THEN "finalise"
        ELSE "optimise"

\* mutant: a first evaluation that meets the threshold still forces a refinement
P05_should_continue_optimisation_mandatory(s) ==
    LET current_eval == Get(s, "current_evaluation", EmptyDict)
        iteration_count == Get(s, "iteration_count", 0)
    IN  IF iteration_count >= P05_MAX_ITERATIONS THEN "finalise"
        ELSE IF ~Get(current_eval, "should_continue", TRUE) THEN "finalise"
        ELSE IF Get(current_eval, "score", 0) >= P05_QUALITY_THRESHOLD
                /\ iteration_count > 0 THEN "finalise"
        ELSE "optimise"

P05_should_continue_optimisation(s) ==
    LET current_eval == Get(s, "current_evaluation", EmptyDict)
        iteration_count == Get(s, "iteration_count", 0)
    IN  IF iteration_count >= P05_MAX_ITERATIONS THEN "finalise"
        ELSE IF ~Get(current_eval, "should_continue", TRUE) THEN "finalise"
        ELSE IF Get(current_eval, "score", 0) >= P05_QUALITY_THRESHOLD THEN "finalise"
        ELSE "optimise"

\* mutant: the optimiser's code goes to finalise without being evaluated
P05_builder_unevaluated(node, s) ==
    CASE node = "START"     -> "generator"
      [] node = "generator" -> "evaluator"
      [] node = "evaluator" ->
            IF P05_should_continue_optimisation(s) = "optimise"
            THEN "optimiser" ELSE "finalise"
      [] node = "optimiser" -> "finalise"
      [] node = "finalise"  -> "END"

\* the edges of the graph: the node that runs after `node`, in state s
P05_builder(node, s) ==
    CASE node = "START"     -> "generator"
      [] node = "generator" -> "evaluator"
      [] node = "evaluator" ->
            IF P05_should_continue_optimisation(s) = "optimise"
            THEN "optimiser" ELSE "finalise"
      [] node = "optimiser" -> "evaluator"
      [] node = "finalise"  -> "END"

P05_generator ==
    /\ prog = P05 /\ pc = "generator"
    /\ \E r \in {NewCode} :
        /\ prompt' = P05_generator_prompt(state)
        /\ response' = r
        /\ state' = Merge(state, P05_code_generator(state, r))
    /\ pc' = P05_builder("generator", state')
    /\ nGen' = nGen + 1
    /\ UNCHANGED <<prog, radon, active, writes, log, report, nEval, nOpt>>

P05_evaluator ==
    /\ prog = P05 /\ pc = "evaluator"
    /\ \E r \in P05_EvaluationResponses :
        /\ prompt' = P05_evaluator_prompt(state)
        /\ response' = r
        /\ state' = Merge(state, P05_evaluator_agent(state, r))
    /\ pc' = P05_builder("evaluator", state')
    /\ nEval' = nEval + 1
    /\ UNCHANGED <<prog, radon, active, writes, log, report, nGen, nOpt>>

P05_optimiser ==
    /\ prog = P05 /\ pc = "optimiser"
    /\ \E r \in {NewCode} :
        /\ prompt' = P05_optimiser_prompt(state)
        /\ response' = r
        /\ state' = Merge(state, P05_optimiser_agent(state, r))
    /\ pc' = P05_builder("optimiser", state')
    /\ nOpt' = nOpt + 1
    /\ UNCHANGED <<prog, radon, active, writes, log, report, nGen, nEval>>

P05_finalise ==
    /\ prog = P05 /\ pc = "finalise"
    /\ state' = Merge(state, P05_finalise_code(state))
    /\ pc' = P05_builder("finalise", state')
    /\ UNCHANGED <<prog, radon, active, writes, log, report, prompt, response, nGen, nEval, nOpt>>

\* patterns/utils.py, EvaluatorCodebase.generate: the summary of the audit trail
REPORT_MAX_ITERATIONS == 3

EvaluatorCodebase_generate(result) ==
    LET iteration_count == Get(result, "iteration_count", 0) IN
    [final_code        |-> Get(result, "final_code", Get(result, "code", EmptyDict)),
     final_score       |-> Get(result, "score", "N/A"),
     iteration_count   |-> iteration_count,
     completion_reason |-> IF iteration_count >= REPORT_MAX_ITERATIONS
                           THEN "Max iterations reached"
                           ELSE "Quality threshold reached"]

\* the main block: codebase.generate(result) on the result of workflow.invoke
P05_main_generate ==
    /\ prog = P05 /\ pc = "END"
    /\ report = EmptyDict
    /\ report' = EvaluatorCodebase_generate(state)
    /\ UNCHANGED <<prog, radon, pc, state, prompt, response, nGen, nEval, nOpt,
                   active, writes, log>>

-----------------------------------------------------------------------------
(* solution/05_evaluator_optimisr.py *)

S05R_max_iterations == 5
S05R_quality_threshold == 8

\* what the evaluator says of the three named criteria, with the issues it lists
S05R_CriteriaInputs ==
    { [security_score |-> 9, performance_score |-> 9, maintainability_score |-> 9,
       priority_issues |-> <<>>],
      [security_score |-> 3, performance_score |-> 7, maintainability_score |-> 9,
       priority_issues |-> <<"input validation">>] }

S05R_EvaluationResponses ==
    { [overall_score |-> o,
       security_score |-> c.security_score,
       performance_score |-> c.performance_score,
       maintainability_score |-> c.maintainability_score,
       feedback |-> NewFeedback,
       priority_issues |-> c.priority_issues,
       should_continue |-> b] :
        o \in ScoreInputs(S05R_quality_threshold), c \in S05R_CriteriaInputs,
        b \in BOOLEAN }

S05R_generator_prompt(s) ==
    LET current == Get(s, "current_evaluation", EmptyDict)
    IN  [node |-> "generator",
         input |-> s["input"],
         feedback |-> IF Truthy(current) THEN <<Get(current, "feedback", <<>>)>> ELSE <<>>,
         priority_issues |-> IF Truthy(current)
                             THEN Get(current, "priority_issues", <<>>) ELSE <<>>]

S05R_code_generator(s, r) ==
    [code |-> r, iteration_count |-> Get(s, "iteration_count", 0)]

S05R_evaluator_prompt(s) == [node |-> "evaluator", code |-> s["code"]]

\* mutant: the history is started afresh at each evaluation
S05R_evaluator_agent_overwrite(s, r) ==
    LET evaluation_dict ==
            [iteration |-> Get(s, "iteration_count", 0),
             overall_score |-> r.overall_score,
             security_score |-> r.security_score,
             performance_score |-> r.performance_score,
             maintainability_score |-> r.maintainability_score,
             feedback |-> r.feedback,
             priority_issues |-> r.priority_issues,
             should_continue |-> r.should_continue]
    IN  [current_evaluation |-> evaluation_dict,
         evaluation_history |-> <<evaluation_dict>>]

S05R_evaluator_agent(s, r) ==
    LET evaluation_dict ==
            [iteration |-> Get(s, "iteration_count", 0),
             overall_score |-> r.overall_score,
             security_score |-> r.security_score,
             performance_score |-> r.performance_score,
             maintainability_score |-> r.maintainability_score,
             feedback |-> r.feedback,
             priority_issues |-> r.priority_issues,
             should_continue |-> r.should_continue]
        evaluation_history == Append(Get(s, "evaluation_history", <<>>), evaluation_dict)
    IN  [current_evaluation |-> evaluation_dict,
         evaluation_history |-> evaluation_history]

S05R_optimiser_prompt(s) ==
    LET current_eval == s["current_evaluation"]
    IN  [node |-> "optimiser", code |-> s["code"],
         feedback |-> current_eval["feedback"],
         priority_issues |-> current_eval["priority_issues"]]

S05R_optimiser_agent(s, r) ==
    LET current_eval == s["current_evaluation"]
        improvement_log == Get(s, "improvement_log", <<>>)
        new_log == [iteration |-> s["iteration_count"], feedback |-> current_eval["feedback"]]
    IN  [code |-> r,
         iteration_count |-> s["iteration_count"] + 1,
         improvement_log |-> Append(improvement_log, new_log)]

S05R_finalise_code(s) == [final_code |-> s["code"]]

S05R_should_continue_optimisation(s) ==
    LET current_eval == Get(s, "current_evaluation", EmptyDict)
        iteration_count == Get(s, "iteration_count", 0)
        overall_score == Get(current_eval, "overall_score", 0)
    IN  IF iteration_count >= S05R_max_iterations THEN "finalise"
        ELSE IF ~Get(current_eval, "should_continue", TRUE) THEN "finalise"
        ELSE IF overall_score >= S05R_quality_threshold THEN "finalise"
        ELSE "optimise"

S05R_builder(node, s) ==
    CASE node = "START"     -> "generator"
      [] node = "generator" -> "evaluator"
      [] node = "evaluator" ->
            IF S05R_should_continue_optimisation(s) = "optimise"
            THEN "optimiser" ELSE "finalise"
      [] node = "optimiser" -> "evaluator"
      [] node = "finalise"  -> "END"

S05R_generator ==
    /\ prog = S05R /\ pc = "generator"
    /\ \E r \in {NewCode} :
        /\ prompt' = S05R_generator_prompt(state)
        /\ response' = r
        /\ state' = Merge(state, S05R_code_generator(state, r))
    /\ pc' = S05R_builder("generator", state')
    /\ nGen' = nGen + 1
    /\ UNCHANGED <<prog, radon, active, writes, log, report, nEval, nOpt>>

S05R_evaluator ==
    /\ prog = S05R /\ pc = "evaluator"
    /\ \E r \in S05R_EvaluationResponses :
        /\ prompt' = S05R_evaluator_prompt(state)
        /\ response' = r
        /\ state' = Merge(state, S05R_evaluator_agent(state, r))
    /\ pc' = S05R_builder("evaluator", state')
    /\ nEval' = nEval + 1
    /\ UNCHANGED <<prog, radon, active, writes, log, report, nGen, nOpt>>

S05R_optimiser ==
    /\ prog = S05R /\ pc = "optimiser"
    /\ \E r \in {NewCode} :
        /\ prompt' = S05R_optimiser_prompt(state)
        /\ response' = r
        /\ state' = Merge(state, S05R_optimiser_agent(state, r))
    /\ pc' = S05R_builder("optimiser", state')
    /\ nOpt' = nOpt + 1
    /\ UNCHANGED <<prog, radon, active, writes, log, report, nGen, nEval>>

S05R_finalise ==
    /\ prog = S05R /\ pc = "finalise"
    /\ state' = Merge(state, S05R_finalise_code(state))
    /\ pc' = S05R_builder("finalise", state')
    /\ UNCHANGED <<prog, radon, active, writes, log, report, prompt, response, nGen, nEval, nOpt>>

-----------------------------------------------------------------------------
(* solution/05_evaluator_optimiser.py *)

S05_MAX_ITERATIONS == 3
S05_QUALITY_THRESHOLD == 8
S05_COMPLEXITY_THRESHOLD == 7
S05_PLATEAU_LIMIT == 2

\* The code the LLM writes, as calculate_complexity_score measures it: lines of
\* code and average cyclomatic complexity of the extracted code block.
S05_CodeMetrics ==
    { [loc |-> 20, avg_complexity |-> 2],
      [loc |-> 50, avg_complexity |-> 4],
      [loc |-> 101, avg_complexity |-> 9] }

S05_CodeResponses ==
    { [id |-> nGen + nOpt + 1, loc |-> m.loc, avg_complexity |-> m.avg_complexity] :
        m \in S05_CodeMetrics }

\* feedback: the text of the n-th evaluation, which mentions "performance" or not
S05_EvaluationResponses ==
    { [quality_score |-> q,
       feedback |-> [eval |-> nEval + 1, mentions_performance |-> m],
       should_continue |-> b] :
        q \in ScoreInputs(S05_QUALITY_THRESHOLD), m \in BOOLEAN, b \in BOOLEAN }

\* radon_installed: whether `import radon` succeeds in the environment of the run.
\* The code is text that radon can parse; loc stands for the line count of
\* either branch.
S05_calculate_complexity_score(code, radon_installed) ==
    IF radon_installed
    THEN IF code.avg_complexity <= 2 /\ code.loc <= 20 THEN 10
         ELSE IF code.avg_complexity <= 4 /\ code.loc <= 50 THEN 8
         ELSE IF code.avg_complexity <= 6 /\ code.loc <= 100 THEN 6
         ELSE IF code.avg_complexity <= 8 THEN 4
         ELSE 2
    ELSE IF code.loc <= 20 THEN 10
         ELSE IF code.loc <= 50 THEN 8
         ELSE IF code.loc <= 100 THEN 6
         ELSE 4

S05_generator_prompt(s) ==
    [node |-> "generator",
     input |-> s["input"],
     feedback |-> IF Truthy(Get(s, "current_evaluation", EmptyDict))
                  THEN <<"Previous feedback: ", s["current_evaluation"]["feedback"]>>
                  ELSE <<>>]

S05_code_generator(s, r) ==
    [code |-> r, iteration_count |-> Get(s, "iteration_count", 0)]

S05_evaluator_prompt(s) == [node |-> "evaluator", code |-> s["code"]]

SeqMax(q) == CHOOSE x \in {q[i] : i \in DOMAIN q} : \A i \in DOMAIN q : q[i] <= x
SeqMin(q) == CHOOSE x \in {q[i] : i \in DOMAIN q} : \A i \in DOMAIN q : x <= q[i]

\* q[-n:]
LastN(q, n) == IF Len(q) <= n THEN q ELSE SubSeq(q, Len(q) - n + 1, Len(q))

\* combined_score is (quality + complexity) / 2: it is kept in halves, as the
\* integer quality + complexity, and 0.5 is one half
S05_evaluator_agent(s, r) ==
    LET complexity_score == S05_calculate_complexity_score(s["code"], radon)
        evaluation_dict ==
            [quality_score |-> r.quality_score,
             complexity_score |-> complexity_score,
             feedback |-> r.feedback,
             should_continue |-> r.should_continue]
        performance_focused == r.feedback.mentions_performance
        history == Append(Get(s, "history", <<>>),
                          [iteration |-> Get(s, "iteration_count", 0),
                           quality_score |-> r.quality_score,
                           complexity_score |-> complexity_score,
                           combined_score |-> r.quality_score + complexity_score])
        recent_scores == [i \in DOMAIN LastN(history, 3) |->
                            LastN(history, 3)[i].combined_score]
        plateau_count ==
            IF Len(history) >= 3 /\ SeqMax(recent_scores) - SeqMin(recent_scores) <= 1
            THEN Get(s, "plateau_count", 0) + 1
            ELSE 0
    IN  [current_evaluation |-> evaluation_dict,
         history |-> history,
         plateau_count |-> plateau_count,
         performance_focused |-> performance_focused]

S05_optimiser_prompt(s) ==
    [node |-> "optimiser",
     template |-> IF Get(s, "performance_focused", FALSE)
                  THEN "performance_optimiser_prompt" ELSE "general_optimiser_prompt",
     code |-> s["code"],
     feedback |-> s["current_evaluation"]["feedback"]]

S05_optimiser_agent(s, r) ==
    [code |-> r, iteration_count |-> s["iteration_count"] + 1]

S05_finalise_code(s) == [final_code |-> s["code"]]

S05_should_continue_optimisation(s) ==
    LET current_eval == Get(s, "current_evaluation", EmptyDict)
        iteration_count == Get(s, "iteration_count", 0)
        plateau_count == Get(s, "plateau_count", 0)
        quality_score == Get(current_eval, "quality_score", 0)
        complexity_score == Get(current_eval, "complexity_score", 0)
    IN  IF iteration_count >= S05_MAX_ITERATIONS THEN "finalise"
        ELSE IF plateau_count >= S05_PLATEAU_LIMIT THEN "finalise"
        ELSE IF ~Get(current_eval, "should_continue", TRUE) THEN "finalise"
        ELSE IF quality_score >= S05_QUALITY_THRESHOLD
                /\ complexity_score >= S05_COMPLEXITY_THRESHOLD THEN "finalise"
        ELSE "optimise"

S05_builder(node, s) ==
    CASE node = "START"     -> "generator"
      [] node = "generator" -> "evaluator"
      [] node = "evaluator" ->
            IF S05_should_continue_optimisation(s) = "optimise"
            THEN "optimiser" ELSE "finalise"
      [] node = "optimiser" -> "evaluator"
      [] node = "finalise"  -> "END"

S05_generator ==
    /\ prog = S05 /\ pc = "generator"
    /\ \E r \in S05_CodeResponses :
        /\ prompt' = S05_generator_prompt(state)
        /\ response' = r
        /\ state' = Merge(state, S05_code_generator(state, r))
    /\ pc' = S05_builder("generator", state')
    /\ nGen' = nGen + 1
    /\ UNCHANGED <<prog, radon, active, writes, log, report, nEval, nOpt>>

S05_evaluator ==
    /\ prog = S05 /\ pc = "evaluator"
    /\ \E r \in S05_EvaluationResponses :
        /\ prompt' = S05_evaluator_prompt(state)
        /\ response' = r
        /\ state' = Merge(state, S05_evaluator_agent(state, r))
    /\ pc' = S05_builder("evaluator", state')
    /\ nEval' = nEval + 1
    /\ UNCHANGED <<prog, radon, active, writes, log, report, nGen, nOpt>>

S05_optimiser ==
    /\ prog = S05 /\ pc = "optimiser"
    /\ \E r \in S05_CodeResponses :
        /\ prompt' = S05_optimiser_prompt(state)
        /\ response' = r
        /\ state' = Merge(state, S05_optimiser_agent(state, r))
    /\ pc' = S05_builder("optimiser", state')
    /\ nOpt' = nOpt + 1
    /\ UNCHANGED <<prog, radon, active, writes, log, report, nGen, nEval>>

S05_finalise ==
    /\ prog = S05 /\ pc = "finalise"
    /\ state' = Merge(state, S05_finalise_code(state))
    /\ pc' = S05_builder("finalise", state')
    /\ UNCHANGED <<prog, radon, active, writes, log, report, prompt, response, nGen, nEval, nOpt>>

-----------------------------------------------------------------------------
(* Python strings, as sequences of characters, and int() *)

Whitespace == {" ", "\n", "\t", "\r"}

DigitValue(c) ==
    CASE c = "0" -> 0 [] c = "1" -> 1 [] c = "2" -> 2 [] c = "3" -> 3 [] c = "4" -> 4
      [] c = "5" -> 5 [] c = "6" -> 6 [] c = "7" -> 7 [] c = "8" -> 8 [] c = "9" -> 9

Digits == {"0", "1", "2", "3", "4", "5", "6", "7", "8", "9"}

RECURSIVE lstrip(_)
lstrip(str) ==
    IF str # <<>> /\ Head(str) \in Whitespace THEN lstrip(Tail(str)) ELSE str

RECURSIVE rstrip(_)
rstrip(str) ==
    IF str # <<>> /\ str[Len(str)] \in Whitespace
    THEN rstrip(SubSeq(str, 1, Len(str) - 1)) ELSE str

\* str.strip()
strip(str) == rstrip(lstrip(str))

\* the value of a string of decimal digits, most significant first
RECURSIVE DecimalValue(_)
DecimalValue(str) ==
    IF str = <<>> THEN 0
    ELSE 10 * DecimalValue(SubSeq(str, 1, Len(str) - 1)) + DigitValue(str[Len(str)])

\* digits, with single underscores allowed between digits
IsDigitString(str) ==
    /\ str # <<>>
    /\ \A i \in DOMAIN str : str[i] \in Digits \cup {"_"}
    /\ str[1] # "_" /\ str[Len(str)] # "_"
    /\ \A i \in 1 .. (Len(str) - 1) : ~(str[i] = "_" /\ str[i + 1] = "_")

RECURSIVE WithoutUnderscores(_)
WithoutUnderscores(str) ==
    IF str = <<>> THEN <<>>
    ELSE IF Head(str) = "_" THEN WithoutUnderscores(Tail(str))
    ELSE <<Head(str)>> \o WithoutUnderscores(Tail(str))

\* int(str): [ok |-> TRUE, value |-> n], or [ok |-> FALSE] where int raises ValueError
int(str) ==
    LET body == strip(str)
        signed == body # <<>> /\ body[1] \in {"+", "-"}
        digits == IF signed THEN Tail(body) ELSE body
    IN  IF IsDigitString(digits)
        THEN [ok |-> TRUE,
              value |-> IF signed /\ body[1] = "-"
                        THEN 0 - DecimalValue(WithoutUnderscores(digits))
                        ELSE DecimalValue(WithoutUnderscores(digits))]
        ELSE [ok |-> FALSE]

\* What the LLM answers when asked for "just the number"
ScoreTexts ==
    { <<"6">>, <<"7">>, <<"8">>, <<"1", "0">>,
      <<" ", "8", "\n">>, <<"+", "9">>,
      <<"4", "2">>, <<"0">>, <<"-", "3">>,
      <<>>, <<"8", "/", "1", "0">>, <<"7", ".", "5">>,
      <<"S", "c", "o", "r", "e", ":", " ", "9">> }

NEUTRAL_SCORE == 5

-----------------------------------------------------------------------------
(* patterns_simple/05_evaluator_optimiser.py *)

PS05_MAX_ITERATIONS == 2
PS05_QUALITY_THRESHOLD == 8

PS05_generator_prompt(s) == [node |-> "generator", input |-> s["input"]]

PS05_generator(s, r) == [code |-> r, iterations |-> Get(s, "iterations", 0)]

PS05_evaluator_prompt(s) == [node |-> "evaluator", code |-> s["code"]]

\* mutant: a response that is no integer scores 0
PS05_evaluator_zero(s, r) ==
    LET parsed == int(strip(r))
        score == IF parsed.ok THEN parsed.value ELSE 0
    IN  [score |-> score]

PS05_evaluator(s, r) ==
    LET parsed == int(strip(r))
        score == IF parsed.ok THEN parsed.value ELSE NEUTRAL_SCORE
    IN  [score |-> score]

PS05_optimiser_prompt(s) == [node |-> "optimiser", code |-> s["code"]]

PS05_optimiser(s, r) == [code |-> r, iterations |-> s["iterations"] + 1]

\* mutant: a first evaluation that meets the threshold still forces a refinement
PS05_should_continue_mandatory(s) ==
    IF Get(s, "iterations", 0) >= PS05_MAX_ITERATIONS THEN "done"
    ELSE IF Get(s, "score", 0) >= PS05_QUALITY_THRESHOLD
            /\ Get(s, "iterations", 0) > 0 THEN "done"
    ELSE "optimise"

PS05_should_continue(s) ==
    IF Get(s, "iterations", 0) >= PS05_MAX_ITERATIONS THEN "done"
    ELSE IF Get(s, "score", 0) >= PS05_QUALITY_THRESHOLD THEN "done"
    ELSE "optimise"

PS05_builder(node, s) ==
    CASE node = "START"     -> "generator"
      [] node = "generator" -> "evaluator"
      [] node = "evaluator" ->
            IF PS05_should_continue(s) = "optimise" THEN "optimiser" ELSE "END"
      [] node = "optimiser" -> "evaluator"

PS05_generator_node ==
    /\ prog = PS05 /\ pc = "generator"
    /\ \E r \in {NewCode} :
        /\ prompt' = PS05_generator_prompt(state)
        /\ response' = r
        /\ state' = Merge(state, PS05_generator(state, r))
    /\ pc' = PS05_builder("generator", state')
    /\ nGen' = nGen + 1
    /\ UNCHANGED <<prog, radon, active, writes, log, report, nEval, nOpt>>

PS05_evaluator_node ==
    /\ prog = PS05 /\ pc = "evaluator"
    /\ \E r \in ScoreTexts :
        /\ prompt' = PS05_evaluator_prompt(state)
        /\ response' = r
        /\ state' = Merge(state, PS05_evaluator(state, r))
    /\ pc' = PS05_builder("evaluator", state')
    /\ nEval' = nEval + 1
    /\ UNCHANGED <<prog, radon, active, writes, log, report, nGen, nOpt>>

PS05_optimiser_node ==
    /\ prog = PS05 /\ pc = "optimiser"
    /\ \E r \in {NewCode} :
        /\ prompt' = PS05_optimiser_prompt(state)
        /\ response' = r
        /\ state' = Merge(state, PS05_optimiser(state, r))
    /\ pc' = PS05_builder("optimiser", state')
    /\ nOpt' = nOpt + 1
    /\ UNCHANGED <<prog, radon, active, writes, log, report, nGen, nEval>>

-----------------------------------------------------------------------------
(* simple/02_conditional_workflow.py *)

S02_QUALITY_THRESHOLD == 7

S02_coder_prompt(s) == [node |-> "coder", input |-> s["input"]]

S02_coder(s, r) == [code |-> r]

S02_evaluator_prompt(s) == [node |-> "evaluator", code |-> s["code"]]

S02_evaluator(s, r) ==
    LET parsed == int(strip(r))
        score == IF parsed.ok THEN parsed.value ELSE NEUTRAL_SCORE
    IN  [score |-> score]

S02_improver_prompt(s) == [node |-> "improver", code |-> s["code"]]

S02_improver(s, r) == [code |-> r]

S02_quality_gate(s) ==
    IF s["score"] >= S02_QUALITY_THRESHOLD THEN "done" ELSE "improve"

S02_builder(node, s) ==
    CASE node = "START"     -> "coder"
      [] node = "coder"     -> "evaluator"
      [] node = "evaluator" ->
            IF S02_quality_gate(s) = "improve" THEN "improver" ELSE "END"
      [] node = "improver"  -> "evaluator"

S02_coder_node ==
    /\ prog = S02 /\ pc = "coder"
    /\ \E r \in {NewCode} :
        /\ prompt' = S02_coder_prompt(state)
        /\ response' = r
        /\ state' = Merge(state, S02_coder(state, r))
    /\ pc' = S02_builder("coder", state')
    /\ nGen' = nGen + 1
    /\ UNCHANGED <<prog, radon, active, writes, log, report, nEval, nOpt>>

S02_evaluator_node ==
    /\ prog = S02 /\ pc = "evaluator"
    /\ \E r \in ScoreTexts :
        /\ prompt' = S02_evaluator_prompt(state)
        /\ response' = r
        /\ state' = Merge(state, S02_evaluator(state, r))
    /\ pc' = S02_builder("evaluator", state')
    /\ nEval' = nEval + 1
    /\ UNCHANGED <<prog, radon, active, writes, log, report, nGen, nOpt>>

\* the workflow keeps no count of improver calls; they are explored up to MaxCalls
S02_improver_node ==
    /\ prog = S02 /\ pc = "improver"
    /\ nOpt < MaxCalls
    /\ \E r \in {NewCode} :
        /\ prompt' = S02_improver_prompt(state)
        /\ response' = r
        /\ state' = Merge(state, S02_improver(state, r))
    /\ pc' = S02_builder("improver", state')
    /\ nOpt' = nOpt + 1
    /\ UNCHANGED <<prog, radon, active, writes, log, report, nGen, nEval>>

-----------------------------------------------------------------------------
(* LLM calls that can fail, and the record of a run *)

\* llm.invoke(...) raised an exception
Raised == [raised |-> TRUE]

\* llm.invoke(...) returned a response with this content
Returned(c) == [raised |-> FALSE, content |-> c]

\* The outcomes of a try block that reads these keys of the state with state[k]
\* and then calls the LLM: a missing key raises KeyError before the call is made,
\* and the except branch sees it like a failed call.
TryInvoke(s, keys, contents) ==
    IF keys \subseteq DOMAIN s
    THEN {Raised} \cup {Returned(c) : c \in contents}
    ELSE {Raised}

\* the log after this node has run with this outcome
Executed(node, outcome) == Append(log, [node |-> node, outcome |-> outcome])

\* how many times a node has run
Executions(node) == Cardinality({i \in DOMAIN log : log[i].node = node})

\* "" as a feedback value (false in a condition)
NoFeedback == EmptyDict

\* the review the LLM writes of this code
ReviewOf(code) == [review_of |-> code]

\* the decisions an approval call can return
ApprovalDecisions ==
    { [approved |-> TRUE,  feedback |-> NoFeedback],
      [approved |-> FALSE, feedback |-> NewFeedback] }

-----------------------------------------------------------------------------
(* patterns/07_production_ready.py *)

P07 == "patterns/07_production_ready"

P07_MAX_RETRIES == 3

P07_coder_prompt(s) ==
    [node |-> "coder", input |-> s["input"], feedback |-> Get(s, "feedback", NoFeedback)]

P07_coder_agent(s, r) ==
    IF r.raised
    THEN [retry_count |-> Get(s, "retry_count", 0) + 1]
    ELSE [code |-> r.content]

P07_reviewer_prompt(s) == [node |-> "reviewer", code |-> s["code"]]

P07_reviewer_agent(s, r) ==
    IF r.raised
    THEN [retry_count |-> Get(s, "retry_count", 0) + 1]
    ELSE [review |-> r.content]

P07_approval_prompt(s) == [node |-> "approval", code |-> s["code"], review |-> s["review"]]

P07_approval_agent(s, r) ==
    IF r.raised
    THEN [approved |-> FALSE, retry_count |-> Get(s, "retry_count", 0) + 1]
    ELSE IF r.content.approved
    THEN [approved |-> TRUE, feedback |-> NoFeedback]
    ELSE [approved |-> FALSE, feedback |-> r.content.feedback]

\* "# PRODUCTION-READY CODE\n# Quality checks: Passed\n\n" + state["code"]
P07_finalise_agent(s) ==
    [final_code |-> [header |-> "PRODUCTION-READY CODE / Quality checks: Passed",
                     code |-> s["code"]]]

P07_handle_errors(s) ==
    [retry_count |-> Get(s, "retry_count", 0) + 1]

P07_should_retry(s) ==
    LET retry_count == Get(s, "retry_count", 0) IN
    IF 0 < retry_count /\ retry_count < P07_MAX_RETRIES THEN "retry" ELSE "reviewer"

P07_check_approval_late(s) ==
    IF Get(s, "approved", FALSE) THEN "approved"
    ELSE IF Get(s, "retry_count", 0) >= P07_MAX_RETRIES + 1 THEN "approved"
    ELSE "retry"

P07_check_approval(s) ==
    IF Get(s, "approved", FALSE) THEN "approved"
    ELSE IF Get(s, "retry_count", 0) >= P07_MAX_RETRIES THEN "approved"
    ELSE "retry"

P07_builder(node, s) ==
    CASE node = "START"         -> "coder"
      [] node = "coder"         -> IF P07_should_retry(s) = "retry"
                                   THEN "handle_errors" ELSE "reviewer"
      [] node = "handle_errors" -> "coder"
      [] node = "reviewer"      -> "approval"
      [] node = "approval"      -> IF P07_check_approval(s) = "approved"
                                   THEN "finalise" ELSE "handle_errors"
      [] node = "finalise"      -> "END"

P07_coder ==
    /\ prog = P07 /\ pc = "coder"
    /\ \E r \in TryInvoke(state, {"input"}, {NewCode}) :
        /\ prompt' = P07_coder_prompt(state)
        /\ response' = r
        /\ state' = Merge(state, P07_coder_agent(state, r))
        /\ log' = Executed("coder", IF r.raised THEN "failed" ELSE "ok")
    /\ pc' = P07_builder("coder", state')
    /\ nGen' = nGen + 1
    /\ UNCHANGED <<prog, radon, nEval, nOpt, active, writes, report>>

P07_reviewer ==
    /\ prog = P07 /\ pc = "reviewer"
    /\ \E r \in TryInvoke(state, {"code"}, {ReviewOf(Get(state, "code", EmptyDict))}) :
        /\ prompt' = IF "code" \in DOMAIN state THEN P07_reviewer_prompt(state) ELSE prompt
        /\ response' = r
        /\ state' = Merge(state, P07_reviewer_agent(state, r))
        /\ log' = Executed("reviewer", IF r.raised THEN "failed" ELSE "ok")
    /\ pc' = P07_builder("reviewer", state')
    /\ UNCHANGED <<prog, radon, nGen, nEval, nOpt, active, writes, report>>

P07_approval ==
    /\ prog = P07 /\ pc = "approval"
    /\ \E r \in TryInvoke(state, {"code", "review"}, ApprovalDecisions) :
        /\ prompt' = IF {"code", "review"} \subseteq DOMAIN state
                     THEN P07_approval_prompt(state) ELSE prompt
        /\ response' = r
        /\ state' = Merge(state, P07_approval_agent(state, r))
        /\ log' = Executed("approval", IF r.raised THEN "failed"
                                       ELSE IF r.content.approved THEN "approved"
                                       ELSE "rejected")
    /\ pc' = P07_builder("approval", state')
    /\ nEval' = nEval + 1
    /\ UNCHANGED <<prog, radon, nGen, nOpt, active, writes, report>>

P07_handle ==
    /\ prog = P07 /\ pc = "handle_errors"
    /\ state' = Merge(state, P07_handle_errors(state))
    /\ log' = Executed("handle_errors", "ok")
    /\ pc' = P07_builder("handle_errors", state')
    /\ UNCHANGED <<prog, radon, prompt, response, nGen, nEval, nOpt, active, writes, report>>

\* state["code"] is read outside any try: without a code key the node raises
\* KeyError and workflow.invoke raises it to the caller
P07_finalise ==
    /\ prog = P07 /\ pc = "finalise"
    /\ IF "code" \in DOMAIN state
       THEN /\ state' = Merge(state, P07_finalise_agent(state))
            /\ log' = Executed("finalise", "ok")
            /\ pc' = P07_builder("finalise", state')
       ELSE /\ state' = state
            /\ log' = Executed("finalise", "KeyError")
            /\ pc' = "RAISED"
    /\ UNCHANGED <<prog, radon, prompt, response, nGen, nEval, nOpt, active, writes, report>>

-----------------------------------------------------------------------------
(* patterns/06_production_ready.py *)

P06 == "patterns/06_production_ready"

P06_MAX_RETRIES == 3

P06_coder_prompt(s) == [node |-> "coder", input |-> s["input"]]

P06_coder_agent(s, r) ==
    IF r.raised
    THEN [retry_count |-> Get(s, "retry_count", 0) + 1]
    ELSE [code |-> r.content, retry_count |-> 0]

P06_reviewer_prompt(s) == [node |-> "reviewer", code |-> s["code"]]

P06_reviewer_agent(s, r) ==
    IF r.raised
    THEN [retry_count |-> Get(s, "retry_count", 0) + 1]
    ELSE [review |-> r.content]

P06_approval_prompt(s) == [node |-> "approval", code |-> s["code"], review |-> s["review"]]

P06_approval_agent(s, r) ==
    IF r.raised
    THEN [approved |-> FALSE, retry_count |-> Get(s, "retry_count", 0) + 1]
    ELSE [approved |-> r.content.approved]

P06_finalise_agent(s) ==
    [final_code |-> [header |-> "PRODUCTION-READY CODE / Quality checks: Passed",
                     code |-> s["code"]]]

P06_handle_errors(s) ==
    [retry_count |-> Get(s, "retry_count", 0)]

P06_should_retry(s) ==
    LET retry_count == Get(s, "retry_count", 0) IN
    IF retry_count > 0 /\ retry_count < P06_MAX_RETRIES THEN "retry" ELSE "reviewer"

P06_check_approval(s) ==
    IF Get(s, "approved", FALSE) THEN "approved"
    ELSE IF Get(s, "retry_count", 0) >= P06_MAX_RETRIES THEN "approved"
    ELSE "retry"

P06_builder(node, s) ==
    CASE node = "START"         -> "coder"
      [] node = "coder"         -> IF P06_should_retry(s) = "retry"
                                   THEN "handle_errors" ELSE "reviewer"
      [] node = "handle_errors" -> "coder"
      [] node = "reviewer"      -> "approval"
      [] node = "approval"      -> IF P06_check_approval(s) = "approved"
                                   THEN "finalise" ELSE "handle_errors"
      [] node = "finalise"      -> "END"

P06_coder ==
    /\ prog = P06 /\ pc = "coder"
    /\ nGen < MaxCalls
    /\ \E r \in TryInvoke(state, {"input"}, {NewCode}) :
        /\ prompt' = P06_coder_prompt(state)
        /\ response' = r
        /\ state' = Merge(state, P06_coder_agent(state, r))
        /\ log' = Executed("coder", IF r.raised THEN "failed" ELSE "ok")
    /\ pc' = P06_builder("coder", state')
    /\ nGen' = nGen + 1
    /\ UNCHANGED <<prog, radon, nEval, nOpt, active, writes, report>>

P06_reviewer ==
    /\ prog = P06 /\ pc = "reviewer"
    /\ \E r \in TryInvoke(state, {"code"}, {ReviewOf(Get(state, "code", EmptyDict))}) :
        /\ prompt' = IF "code" \in DOMAIN state THEN P06_reviewer_prompt(state) ELSE prompt
        /\ response' = r
        /\ state' = Merge(state, P06_reviewer_agent(state, r))
        /\ log' = Executed("reviewer", IF r.raised THEN "failed" ELSE "ok")
    /\ pc' = P06_builder("reviewer", state')
    /\ UNCHANGED <<prog, radon, nGen, nEval, nOpt, active, writes, report>>

P06_approval ==
    /\ prog = P06 /\ pc = "approval"
    /\ \E r \in TryInvoke(state, {"code", "review"}, ApprovalDecisions) :
        /\ prompt' = IF {"code", "review"} \subseteq DOMAIN state
                     THEN P06_approval_prompt(state) ELSE prompt
        /\ response' = r
        /\ state' = Merge(state, P06_approval_agent(state, r))
        /\ log' = Executed("approval", IF r.raised THEN "failed"
                                       ELSE IF r.content.approved THEN "approved"
                                       ELSE "rejected")
    /\ pc' = P06_builder("approval", state')
    /\ nEval' = nEval + 1
    /\ UNCHANGED <<prog, radon, nGen, nOpt, active, writes, report>>

P06_handle ==
    /\ prog = P06 /\ pc = "handle_errors"
    /\ state' = Merge(state, P06_handle_errors(state))
    /\ log' = Executed("handle_errors", "ok")
    /\ pc' = P06_builder("handle_errors", state')
    /\ UNCHANGED <<prog, radon, prompt, response, nGen, nEval, nOpt, active, writes, report>>

P06_finalise ==
    /\ prog = P06 /\ pc = "finalise"
    /\ IF "code" \in DOMAIN state
       THEN /\ state' = Merge(state, P06_finalise_agent(state))
            /\ log' = Executed("finalise", "ok")
            /\ pc' = P06_builder("finalise", state')
       ELSE /\ state' = state
            /\ log' = Executed("finalise", "KeyError")
            /\ pc' = "RAISED"
    /\ UNCHANGED <<prog, radon, prompt, response, nGen, nEval, nOpt, active, writes, report>>

-----------------------------------------------------------------------------
(* simple/06_production_ready.py *)

SI06 == "simple/06_production_ready"

SI06_MAX_RETRIES == 3

\* str.lower() on the letters that occur in the answers
lower(str) ==
    [i \in DOMAIN str |->
        CASE str[i] = "Y" -> "y"
          [] str[i] = "N" -> "n"
          [] OTHER -> str[i]]

\* sub in str
Contains(str, sub) ==
    \E i \in 1 .. (Len(str) - Len(sub) + 1) : SubSeq(str, i, i + Len(sub) - 1) = sub

\* answers of the approver LLM: "Yes.", "no", "Not yet"
SI06_ApproverTexts ==
    { <<"Y", "e", "s", ".">>,
      <<"n", "o">>,
      <<"N", "o", "t", " ", "y", "e", "t">> }

SI06_coder_prompt(s) == [node |-> "coder", input |-> s["input"]]

SI06_coder(s, r) ==
    IF r.raised
    THEN [retries |-> Get(s, "retries", 0) + 1]
    ELSE [code |-> r.content, retries |-> 0]

SI06_approver_prompt(s) == [node |-> "approver", code |-> s["code"]]

SI06_approver(s, r) ==
    [approved |-> Contains(lower(r.content), <<"y", "e", "s">>)]

\* returns the state it was given
SI06_error_handler(s) == s

SI06_check_status(s) ==
    IF Get(s, "retries", 0) > 0 /\ Get(s, "retries", 0) < SI06_MAX_RETRIES
    THEN "retry" ELSE "approve"

SI06_check_approval(s) ==
    IF Get(s, "approved", FALSE) THEN "deploy"
    ELSE IF Get(s, "retries", 0) < SI06_MAX_RETRIES THEN "retry"
    ELSE "deploy"

SI06_deploy(s) == s

SI06_builder(node, s) ==
    CASE node = "START"         -> "coder"
      [] node = "coder"         -> IF SI06_check_status(s) = "retry"
                                   THEN "error_handler" ELSE "approver"
      [] node = "error_handler" -> "coder"
      [] node = "approver"      -> IF SI06_check_approval(s) = "deploy"
                                   THEN "deploy" ELSE "error_handler"
      [] node = "deploy"        -> "END"

SI06_coder_node ==
    /\ prog = SI06 /\ pc = "coder"
    /\ nGen < MaxCalls
    /\ \E r \in TryInvoke(state, {"input"}, {NewCode}) :
        /\ prompt' = SI06_coder_prompt(state)
        /\ response' = r
        /\ state' = Merge(state, SI06_coder(state, r))
        /\ log' = Executed("coder", IF r.raised THEN "failed" ELSE "ok")
    /\ pc' = SI06_builder("coder", state')
    /\ nGen' = nGen + 1
    /\ UNCHANGED <<prog, radon, nEval, nOpt, active, writes, report>>

\* no try here: a missing code key (KeyError) and a failed LLM call are raised
\* to the caller of workflow.invoke
SI06_approver_node ==
    /\ prog = SI06 /\ pc = "approver"
    /\ \E r \in TryInvoke(state, {"code"}, SI06_ApproverTexts) :
        /\ prompt' = IF "code" \in DOMAIN state THEN SI06_approver_prompt(state) ELSE prompt
        /\ response' = r
        /\ IF r.raised
           THEN /\ state' = state
                /\ log' = Executed("approver", "raised")
                /\ pc' = "RAISED"
           ELSE /\ state' = Merge(state, SI06_approver(state, r))
                /\ log' = Executed("approver", IF state'["approved"] THEN "approved"
                                               ELSE "rejected")
                /\ pc' = SI06_builder("approver", state')
    /\ nEval' = nEval + 1
    /\ UNCHANGED <<prog, radon, nGen, nOpt, active, writes, report>>

SI06_error_handler_node ==
    /\ prog = SI06 /\ pc = "error_handler"
    /\ state' = Merge(state, SI06_error_handler(state))
    /\ log' = Executed("error_handler", "ok")
    /\ pc' = SI06_builder("error_handler", state')
    /\ UNCHANGED <<prog, radon, prompt, response, nGen, nEval, nOpt, active, writes, report>>

SI06_deploy_node ==
    /\ prog = SI06 /\ pc = "deploy"
    /\ state' = Merge(state, SI06_deploy(state))
    /\ log' = Executed("deploy", "ok")
    /\ pc' = SI06_builder("deploy", state')
    /\ UNCHANGED <<prog, radon, prompt, response, nGen, nEval, nOpt, active, writes, report>>

-----------------------------------------------------------------------------
(* solution/07_production_ready.py *)

S07 == "solution/07_production_ready"

S07_MAX_RETRIES == 3
S07_BREAKER_LIMIT == 2

\* the state given to workflow.invoke in the main block
S07_InitialState ==
    [input |-> "task", retry_count |-> 0, consecutive_failures |-> 0,
     circuit_breaker_triggered |-> FALSE, approved |-> FALSE, human_approved |-> FALSE]

S07_CriticalKeywords ==
    {"authentication", "password", "security", "payment", "encryption",
     "database", "production", "deploy", "config", "admin", "root"}

\* generated code: a fresh artifact and the (lower-cased) words that occur in it
S07_CodeResponses ==
    { [id |-> nGen + 1, words |-> w] : w \in {{"def", "return"}, {"def", "password"}} }

\* the simulated human approver's decisions
S07_HumanDecisions ==
    { [approved |-> TRUE,  comments |-> [human |-> nEval + 1]],
      [approved |-> FALSE, comments |-> [human |-> nEval + 1]] }

S07_coder_prompt(s) ==
    [node |-> "coder", input |-> s["input"], feedback |-> Get(s, "feedback", NoFeedback)]

S07_coder_agent(s, r) ==
    IF r.raised
    THEN [retry_count |-> Get(s, "retry_count", 0) + 1,
          consecutive_failures |-> Get(s, "consecutive_failures", 0) + 1]
    ELSE [code |-> r.content,
          needs_human_approval |-> (r.content.words \cap S07_CriticalKeywords # {}),
          consecutive_failures |-> 0]

S07_reviewer_prompt(s) == [node |-> "reviewer", code |-> s["code"]]

S07_reviewer_agent(s, r) ==
    IF r.raised
    THEN [retry_count |-> Get(s, "retry_count", 0) + 1,
          consecutive_failures |-> Get(s, "consecutive_failures", 0) + 1]
    ELSE [review |-> r.content]

S07_compliance_prompt(s) == [node |-> "compliance", code |-> s["code"]]

S07_compliance_agent(s, r) ==
    IF r.raised
    THEN [compliance_report |-> [failed |-> TRUE],
          consecutive_failures |-> Get(s, "consecutive_failures", 0) + 1]
    ELSE [compliance_report |-> r.content]

S07_approval_prompt(s) == [node |-> "approval", code |-> s["code"], review |-> s["review"]]

S07_approval_agent(s, r) ==
    IF r.raised
    THEN [approved |-> FALSE,
          retry_count |-> Get(s, "retry_count", 0) + 1,
          consecutive_failures |-> Get(s, "consecutive_failures", 0) + 1]
    ELSE IF r.content.approved
    THEN [approved |-> TRUE, feedback |-> NoFeedback]
    ELSE [approved |-> FALSE, feedback |-> r.content.feedback,
          consecutive_failures |-> Get(s, "consecutive_failures", 0) + 1]

S07_human_approval_prompt(s) ==
    [node |-> "human_approval", code |-> s["code"], review |-> s["review"],
     compliance_report |-> Get(s, "compliance_report", [none |-> TRUE])]

S07_human_approval_agent(s, r) ==
    IF r.raised
    THEN [human_approved |-> FALSE, feedback |-> [human_failed |-> TRUE]]
    ELSE [human_approved |-> r.content.approved, feedback |-> r.content.comments]

\* "# MANUAL REVIEW APPROVED\n# Circuit breaker triggered ..." + state.get("code", "")
S07_manual_review_agent(s) ==
    [approved |-> TRUE, human_approved |-> TRUE,
     final_code |-> [header |-> "MANUAL REVIEW APPROVED",
                     code |-> Get(s, "code", EmptyDict)],
     feedback |-> [manual |-> TRUE]]

S07_finalise_agent(s) ==
    [final_code |-> [header |-> "PRODUCTION-READY CODE / Quality checks: Passed",
                     code |-> s["code"]]]

S07_handle_errors(s) ==
    [retry_count |-> Get(s, "retry_count", 0) + 1,
     circuit_breaker_triggered |-> (Get(s, "consecutive_failures", 0) >= S07_BREAKER_LIMIT)]

S07_should_retry(s) ==
    LET retry_count == Get(s, "retry_count", 0) IN
    IF Get(s, "circuit_breaker_triggered", FALSE) THEN "compliance"
    ELSE IF retry_count > 0 /\ retry_count < S07_MAX_RETRIES THEN "retry"
    ELSE "compliance"

S07_check_circuit_breaker(s) ==
    IF Get(s, "circuit_breaker_triggered", FALSE) THEN "manual_review" ELSE "human_approval"

S07_check_human_approval_needed(s) ==
    IF Get(s, "needs_human_approval", FALSE) THEN "human_approval" ELSE "finalise"

S07_check_final_approval(s) ==
    IF Get(s, "needs_human_approval", FALSE) /\ ~Get(s, "human_approved", TRUE) THEN "retry"
    ELSE IF Get(s, "approved", FALSE) THEN "finalise"
    ELSE IF Get(s, "retry_count", 0) >= S07_MAX_RETRIES THEN "finalise"
    ELSE "retry"

S07_builder(node, s) ==
    CASE node = "START"          -> "coder"
      [] node = "coder"          -> IF S07_should_retry(s) = "retry"
                                    THEN "handle_errors" ELSE "reviewer"
      [] node = "handle_errors"  -> "coder"
      [] node = "reviewer"       -> "compliance"
      [] node = "compliance"     -> IF S07_check_circuit_breaker(s) = "manual_review"
                                    THEN "manual_review" ELSE "approval"
      [] node = "approval"       -> IF S07_check_final_approval(s) = "finalise"
                                    THEN "human_approval" ELSE "handle_errors"
      [] node = "human_approval" -> IF S07_check_human_approval_needed(s) = "human_approval"
                                    THEN "finalise" ELSE "finalise"
      [] node = "manual_review"  -> "END"
      [] node = "finalise"       -> "END"

S07_coder ==
    /\ prog = S07 /\ pc = "coder"
    /\ nGen < MaxCalls
    /\ \E r \in TryInvoke(state, {"input"}, S07_CodeResponses) :
        /\ prompt' = S07_coder_prompt(state)
        /\ response' = r
        /\ state' = Merge(state, S07_coder_agent(state, r))
        /\ log' = Executed("coder", IF r.raised THEN "failed" ELSE "ok")
    /\ pc' = S07_builder("coder", state')
    /\ nGen' = nGen + 1
    /\ UNCHANGED <<prog, radon, nEval, nOpt, active, writes, report>>

S07_reviewer ==
    /\ prog = S07 /\ pc = "reviewer"
    /\ \E r \in TryInvoke(state, {"code"}, {ReviewOf(Get(state, "code", EmptyDict))}) :
        /\ prompt' = IF "code" \in DOMAIN state THEN S07_reviewer_prompt(state) ELSE prompt
        /\ response' = r
        /\ state' = Merge(state, S07_reviewer_agent(state, r))
        /\ log' = Executed("reviewer", IF r.raised THEN "failed" ELSE "ok")
    /\ pc' = S07_builder("reviewer", state')
    /\ UNCHANGED <<prog, radon, nGen, nEval, nOpt, active, writes, report>>

S07_compliance ==
    /\ prog = S07 /\ pc = "compliance"
    /\ \E r \in TryInvoke(state, {"code"}, {[compliant |-> TRUE]}) :
        /\ prompt' = IF "code" \in DOMAIN state THEN S07_compliance_prompt(state) ELSE prompt
        /\ response' = r
        /\ state' = Merge(state, S07_compliance_agent(state, r))
        /\ log' = Executed("compliance", IF r.raised THEN "failed" ELSE "ok")
    /\ pc' = S07_builder("compliance", state')
    /\ UNCHANGED <<prog, radon, nGen, nEval, nOpt, active, writes, report>>

S07_approval ==
    /\ prog = S07 /\ pc = "approval"
    /\ \E r \in TryInvoke(state, {"code", "review"}, ApprovalDecisions) :
        /\ prompt' = IF {"code", "review"} \subseteq DOMAIN state
                     THEN S07_approval_prompt(state) ELSE prompt
        /\ response' = r
        /\ state' = Merge(state, S07_approval_agent(state, r))
        /\ log' = Executed("approval", IF r.raised THEN "failed"
                                       ELSE IF r.content.approved THEN "approved"
                                       ELSE "rejected")
    /\ pc' = S07_builder("approval", state')
    /\ nEval' = nEval + 1
    /\ UNCHANGED <<prog, radon, nGen, nOpt, active, writes, report>>

S07_human_approval ==
    /\ prog = S07 /\ pc = "human_approval"
    /\ \E r \in TryInvoke(state, {"code", "review"}, S07_HumanDecisions) :
        /\ prompt' = IF {"code", "review"} \subseteq DOMAIN state
                     THEN S07_human_approval_prompt(state) ELSE prompt
        /\ response' = r
        /\ state' = Merge(state, S07_human_approval_agent(state, r))
        /\ log' = Executed("human_approval", IF r.raised THEN "failed"
                                             ELSE IF r.content.approved THEN "approved"
                                             ELSE "rejected")
    /\ pc' = S07_builder("human_approval", state')
    /\ nEval' = nEval + 1
    /\ UNCHANGED <<prog, radon, nGen, nOpt, active, writes, report>>

S07_manual_review ==
    /\ prog = S07 /\ pc = "manual_review"
    /\ state' = Merge(state, S07_manual_review_agent(state))
    /\ log' = Executed("manual_review", "ok")
    /\ pc' = S07_builder("manual_review", state')
    /\ UNCHANGED <<prog, radon, prompt, response, nGen, nEval, nOpt, active, writes, report>>

S07_handle ==
    /\ prog = S07 /\ pc = "handle_errors"
    /\ state' = Merge(state, S07_handle_errors(state))
    /\ log' = Executed("handle_errors", "ok")
    /\ pc' = S07_builder("handle_errors", state')
    /\ UNCHANGED <<prog, radon, prompt, response, nGen, nEval, nOpt, active, writes, report>>

S07_finalise ==
    /\ prog = S07 /\ pc = "finalise"
    /\ IF "code" \in DOMAIN state
       THEN /\ state' = Merge(state, S07_finalise_agent(state))
            /\ log' = Executed("finalise", "ok")
            /\ pc' = S07_builder("finalise", state')
       ELSE /\ state' = state
            /\ log' = Executed("finalise", "KeyError")
            /\ pc' = "RAISED"
    /\ UNCHANGED <<prog, radon, prompt, response, nGen, nEval, nOpt, active, writes, report>>

-----------------------------------------------------------------------------
(* solution/06_production_ready.py *)

S06 == "solution/06_production_ready"

S06_MAX_RETRIES == 3

\* the answers of the simulated human approver
S06_HumanApprovals ==
    { [approved |-> TRUE,  feedback |-> [human |-> nEval + 1]],
      [approved |-> FALSE, feedback |-> [human |-> nEval + 1]] }

\* state.get("error_log", "") + message + "\n": the log as the list of its lines
S06_error_log(s, message) == Append(Get(s, "error_log", <<>>), message)

\* robust_llm_call makes up to three attempts and raises when the third has
\* failed: the node sees a response or an exception.
S06_coder_prompt(s) == [node |-> "coder", input |-> s["input"]]

S06_coder_agent(s, r) ==
    LET session_id == Get(s, "session_id", "session_t") IN
    IF r.raised
    THEN [error_log |-> S06_error_log(s, [msg |-> "Code generation failed"]),
          retry_count |-> Get(s, "retry_count", 0) + 1,
          session_id |-> session_id]
    ELSE [code |-> r.content,
          session_id |-> session_id,
          execution_time |-> [elapsed_for |-> r.content],
          retry_count |-> 0]

S06_reviewer_prompt(s) == [node |-> "reviewer", code |-> s["code"]]

S06_reviewer_agent(s, r) ==
    IF r.raised
    THEN [error_log |-> S06_error_log(s, [msg |-> "Code review failed"]),
          retry_count |-> Get(s, "retry_count", 0) + 1]
    ELSE [review |-> r.content]

S06_human_approval_prompt(s) ==
    [node |-> "human_approval", code |-> s["code"], review |-> s["review"]]

S06_human_approval_agent(s, r) ==
    IF r.raised
    THEN [error_log |-> S06_error_log(s, [msg |-> "Human approval process failed"]),
          human_approval_needed |-> TRUE]
    ELSE IF ~r.content.approved
    THEN [human_approval_needed |-> TRUE,
          error_log |-> S06_error_log(s, [msg |-> "Human rejection",
                                          feedback |-> r.content.feedback])]
    ELSE [human_approval_needed |-> FALSE]

S06_error_recovery_agent(s) ==
    LET retry_count == Get(s, "retry_count", 0) IN
    IF retry_count >= S06_MAX_RETRIES
    THEN [human_approval_needed |-> TRUE,
          error_log |-> S06_error_log(s, [msg |-> "Max retries exceeded"])]
    ELSE [retry_count |-> retry_count]

S06_finalise_agent(s) ==
    [refactored_code |-> [header |-> "Quality Checks: Passed",
                          session_id |-> s["session_id"],
                          execution_time |-> Get(s, "execution_time", 0),
                          code |-> s["code"]]]

S06_should_retry(s) ==
    LET error_log == Get(s, "error_log", <<>>)
        retry_count == Get(s, "retry_count", 0)
    IN  IF error_log # <<>> /\ retry_count < S06_MAX_RETRIES THEN "retry"
        ELSE IF error_log # <<>> \/ Get(s, "human_approval_needed", FALSE)
        THEN "human_review"
        ELSE "continue"

S06_needs_human_approval(s) ==
    IF Get(s, "human_approval_needed", FALSE) THEN "human_approval" ELSE "finalise"

S06_builder(node, s) ==
    CASE node = "START"          -> "coder"
      [] node = "coder"          ->
            IF S06_should_retry(s) = "retry" THEN "error_recovery"
            ELSE IF S06_should_retry(s) = "human_review" THEN "human_approval"
            ELSE "reviewer"
      [] node = "error_recovery" -> "coder"
      [] node = "reviewer"       -> "human_approval"
      [] node = "human_approval" ->
            IF S06_needs_human_approval(s) = "human_approval"
            THEN "error_recovery" ELSE "finalise"
      [] node = "finalise"       -> "END"

S06_coder ==
    /\ prog = S06 /\ pc = "coder"
    /\ nGen < MaxCalls
    /\ \E r \in TryInvoke(state, {"input"}, {NewCode}) :
        /\ prompt' = S06_coder_prompt(state)
        /\ response' = r
        /\ state' = Merge(state, S06_coder_agent(state, r))
        /\ log' = Executed("coder", IF r.raised THEN "failed" ELSE "ok")
    /\ pc' = S06_builder("coder", state')
    /\ nGen' = nGen + 1
    /\ UNCHANGED <<prog, radon, nEval, nOpt, active, writes, report>>

S06_reviewer ==
    /\ prog = S06 /\ pc = "reviewer"
    /\ \E r \in TryInvoke(state, {"code"}, {ReviewOf(Get(state, "code", EmptyDict))}) :
        /\ prompt' = IF "code" \in DOMAIN state THEN S06_reviewer_prompt(state) ELSE prompt
        /\ response' = r
        /\ state' = Merge(state, S06_reviewer_agent(state, r))
        /\ log' = Executed("reviewer", IF r.raised THEN "failed" ELSE "ok")
    /\ pc' = S06_builder("reviewer", state')
    /\ UNCHANGED <<prog, radon, nGen, nEval, nOpt, active, writes, report>>

S06_human_approval ==
    /\ prog = S06 /\ pc = "human_approval"
    /\ \E r \in TryInvoke(state, {"code", "review"}, S06_HumanApprovals) :
        /\ prompt' = IF {"code", "review"} \subseteq DOMAIN state
                     THEN S06_human_approval_prompt(state) ELSE prompt
        /\ response' = r
        /\ state' = Merge(state, S06_human_approval_agent(state, r))
        /\ log' = Executed("human_approval", IF r.raised THEN "failed"
                                             ELSE IF r.content.approved THEN "approved"
                                             ELSE "rejected")
    /\ pc' = S06_builder("human_approval", state')
    /\ nEval' = nEval + 1
    /\ UNCHANGED <<prog, radon, nGen, nOpt, active, writes, report>>

S06_error_recovery ==
    /\ prog = S06 /\ pc = "error_recovery"
    /\ state' = Merge(state, S06_error_recovery_agent(state))
    /\ log' = Executed("error_recovery", "ok")
    /\ pc' = S06_builder("error_recovery", state')
    /\ UNCHANGED <<prog, radon, prompt, response, nGen, nEval, nOpt, active, writes, report>>

S06_finalise ==
    /\ prog = S06 /\ pc = "finalise"
    /\ IF "code" \in DOMAIN state
       THEN /\ state' = Merge(state, S06_finalise_agent(state))
            /\ log' = Executed("finalise", "ok")
            /\ pc' = S06_builder("finalise", state')
       ELSE /\ state' = state
            /\ log' = Executed("finalise", "KeyError")
            /\ pc' = "RAISED"
    /\ UNCHANGED <<prog, radon, prompt, response, nGen, nEval, nOpt, active, writes, report>>

-----------------------------------------------------------------------------
(* solutions/07_production_ready_solution.py *)

SS07 == "solutions/07_production_ready_solution"

SS07_MAX_RETRIES == 3
SS07_STREAK_LIMIT == 2

\* "" as a code value
EmptyArtifact == EmptyDict

\* what the compliance officer writes about the code: the report mentions
\* "non-compliant" or it does not
SS07_ComplianceReports(code) ==
    { [report_of |-> code, mentions_non_compliant |-> b] : b \in BOOLEAN }

SS07_coder_prompt(s) ==
    [node |-> "coder", input |-> s["input"], feedback |-> Get(s, "feedback", NoFeedback)]

SS07_coder_agent(s, r) ==
    IF r.raised
    THEN [retry_count |-> Get(s, "retry_count", 0) + 1]
    ELSE [code |-> r.content]

SS07_reviewer_prompt(s) == [node |-> "reviewer", code |-> s["code"]]

SS07_reviewer_agent(s, r) ==
    IF r.raised
    THEN [retry_count |-> Get(s, "retry_count", 0) + 1]
    ELSE [review |-> r.content]

SS07_compliance_prompt(s) == [node |-> "compliance", code |-> s["code"]]

SS07_compliance_agent(s, r) ==
    IF r.raised
    THEN [retry_count |-> Get(s, "retry_count", 0) + 1, compliant |-> FALSE]
    ELSE [compliance_report |-> r.content,
          compliant |-> ~r.content.mentions_non_compliant]

SS07_manual_review_agent(s) ==
    LET code == Get(s, "last_approved_code", Get(s, "code", EmptyArtifact)) IN
    [approved |-> TRUE,
     final_code |-> code,
     code |-> code,
     human_approval_needed |-> TRUE,
     failure_streak |-> 0]

SS07_approval_prompt(s) ==
    [node |-> "approval", code |-> s["code"], review |-> s["review"]]

SS07_approval_agent(s, r) ==
    IF r.raised
    THEN [approved |-> FALSE, retry_count |-> Get(s, "retry_count", 0) + 1]
    ELSE LET compliant == Get(s, "compliant", TRUE)
             feedback == IF ~compliant
                         THEN [non_compliance |-> Get(s, "compliance_report", EmptyDict)]
                         ELSE r.content.feedback
             approved == IF ~compliant THEN FALSE ELSE r.content.approved
         IN  IF approved
             THEN [approved |-> TRUE,
                   feedback |-> NoFeedback,
                   last_approved_code |-> Get(s, "code", EmptyArtifact),
                   failure_streak |-> 0]
             ELSE [approved |-> FALSE, feedback |-> feedback]

\* "workflow_log" is not a key of ProductionState: the graph drops it
SS07_finalise_agent(s) ==
    [final_code |-> [header |-> "PRODUCTION-READY CODE / Quality checks: Passed",
                     code |-> s["code"]]]

SS07_handle_errors(s) ==
    LET retry_count == Get(s, "retry_count", 0) + 1
        failure_streak == Get(s, "failure_streak", 0) + 1
        rollback == Get(s, "last_approved_code", EmptyArtifact)
    IN  [retry_count |-> retry_count,
         failure_streak |-> failure_streak,
         code |-> rollback]

SS07_should_retry(s) ==
    LET retry_count == Get(s, "retry_count", 0) IN
    IF /\ retry_count > 0 /\ retry_count < SS07_MAX_RETRIES
       /\ Get(s, "failure_streak", 0) < SS07_STREAK_LIMIT
    THEN "retry" ELSE "reviewer"

SS07_check_approval_nobreaker(s) ==
    IF Get(s, "approved", FALSE) THEN "approved"
    ELSE IF Get(s, "retry_count", 0) >= SS07_MAX_RETRIES THEN "manual"
    ELSE "retry"

SS07_check_approval(s) ==
    IF Get(s, "approved", FALSE) THEN "approved"
    ELSE IF Get(s, "failure_streak", 0) >= SS07_STREAK_LIMIT THEN "manual"
    ELSE IF Get(s, "retry_count", 0) >= SS07_MAX_RETRIES THEN "manual"
    ELSE "retry"

SS07_builder(node, s) ==
    CASE node = "START"         -> "coder"
      [] node = "coder"         -> IF SS07_should_retry(s) = "retry"
                                   THEN "handle_errors" ELSE "reviewer"
      [] node = "handle_errors" -> "coder"
      [] node = "reviewer"      -> "compliance"
      [] node = "compliance"    -> "approval"
      [] node = "approval"      -> IF SS07_check_approval(s) = "approved" THEN "finalise"
                                   ELSE IF SS07_check_approval(s) = "retry"
                                   THEN "handle_errors"
                                   ELSE "manual_review"
      [] node = "manual_review" -> "finalise"
      [] node = "finalise"      -> "END"

SS07_coder ==
    /\ prog = SS07 /\ pc = "coder"
    /\ \E r \in TryInvoke(state, {"input"}, {NewCode}) :
        /\ prompt' = SS07_coder_prompt(state)
        /\ response' = r
        /\ state' = Merge(state, SS07_coder_agent(state, r))
        /\ log' = Executed("coder", IF r.raised THEN "failed" ELSE "ok")
    /\ pc' = SS07_builder("coder", state')
    /\ nGen' = nGen + 1
    /\ UNCHANGED <<prog, radon, nEval, nOpt, active, writes, report>>

SS07_reviewer ==
    /\ prog = SS07 /\ pc = "reviewer"
    /\ \E r \in TryInvoke(state, {"code"}, {ReviewOf(Get(state, "code", EmptyDict))}) :
        /\ prompt' = IF "code" \in DOMAIN state THEN SS07_reviewer_prompt(state) ELSE prompt
        /\ response' = r
        /\ state' = Merge(state, SS07_reviewer_agent(state, r))
        /\ log' = Executed("reviewer", IF r.raised THEN "failed" ELSE "ok")
    /\ pc' = SS07_builder("reviewer", state')
    /\ UNCHANGED <<prog, radon, nGen, nEval, nOpt, active, writes, report>>

SS07_compliance ==
    /\ prog = SS07 /\ pc = "compliance"
    /\ \E r \in TryInvoke(state, {"code"},
                          SS07_ComplianceReports(Get(state, "code", EmptyDict))) :
        /\ prompt' = IF "code" \in DOMAIN state THEN SS07_compliance_prompt(state) ELSE prompt
        /\ response' = r
        /\ state' = Merge(state, SS07_compliance_agent(state, r))
        /\ log' = Executed("compliance", IF r.raised THEN "failed" ELSE "ok")
    /\ pc' = SS07_builder("compliance", state')
    /\ UNCHANGED <<prog, radon, nGen, nEval, nOpt, active, writes, report>>

SS07_approval ==
    /\ prog = SS07 /\ pc = "approval"
    /\ \E r \in TryInvoke(state, {"code", "review"}, ApprovalDecisions) :
        /\ prompt' = IF {"code", "review"} \subseteq DOMAIN state
                     THEN SS07_approval_prompt(state) ELSE prompt
        /\ response' = r
        /\ state' = Merge(state, SS07_approval_agent(state, r))
        /\ log' = Executed("approval", IF r.raised THEN "failed"
                                       ELSE IF state'["approved"] THEN "approved"
                                       ELSE "rejected")
    /\ pc' = SS07_builder("approval", state')
    /\ nEval' = nEval + 1
    /\ UNCHANGED <<prog, radon, nGen, nOpt, active, writes, report>>

SS07_handle ==
    /\ prog = SS07 /\ pc = "handle_errors"
    /\ state' = Merge(state, SS07_handle_errors(state))
    /\ log' = Executed("handle_errors", "ok")
    /\ pc' = SS07_builder("handle_errors", state')
    /\ UNCHANGED <<prog, radon, prompt, response, nGen, nEval, nOpt, active, writes, report>>

SS07_manual_review ==
    /\ prog = SS07 /\ pc = "manual_review"
    /\ state' = Merge(state, SS07_manual_review_agent(state))
    /\ log' = Executed("manual_review", "ok")
    /\ pc' = SS07_builder("manual_review", state')
    /\ UNCHANGED <<prog, radon, prompt, response, nGen, nEval, nOpt, active, writes, report>>

SS07_finalise ==
    /\ prog = SS07 /\ pc = "finalise"
    /\ IF "code" \in DOMAIN state
       THEN /\ state' = Merge(state, SS07_finalise_agent(state))
            /\ log' = Executed("finalise", "ok")
            /\ pc' = SS07_builder("finalise", state')
       ELSE /\ state' = state
            /\ log' = Executed("finalise", "KeyError")
            /\ pc' = "RAISED"
    /\ UNCHANGED <<prog, radon, prompt, response, nGen, nEval, nOpt, active, writes, report>>

-----------------------------------------------------------------------------
(* Graphs with parallel branches *)

(***************************************************************************)
(* A compiled graph runs in steps.  The nodes of a step run concurrently,  *)
(* each on the state the step started with; the updates they return are    *)
(* applied together when all of them have returned, and the nodes that     *)
(* their outgoing edges name run in the next step (a node named by several *)
(* edges runs once).  A key without a reducer takes one value per step:    *)
(* two updates of it in one step raise InvalidUpdateError.  For the        *)
(* programs below pc is "RUNNING" while there are nodes to run, `active`   *)
(* is the set of nodes of the current step that have not returned, and     *)
(* `writes` holds, by node, the update and the edge targets of those that  *)
(* have.                                                                   *)
(***************************************************************************)

\* the nodes that wrote key k in this step
Writers(w, k) == {n \in DOMAIN w : k \in DOMAIN w[n].update}

WrittenKeys(w) == UNION {DOMAIN w[n].update : n \in DOMAIN w}

\* two nodes of one step have written the same key
Conflict(w) == \E k \in WrittenKeys(w) : Cardinality(Writers(w, k)) > 1

\* the state after the updates of a step without conflict
Applied(s, w) ==
    [k \in (DOMAIN s) \cup WrittenKeys(w) |->
        IF Writers(w, k) # {}
        THEN w[CHOOSE n \in Writers(w, k) : TRUE].update[k]
        ELSE s[k]]

\* the nodes named by the edges that the nodes of this step have taken
Triggered(w) == UNION {w[n].goto : n \in DOMAIN w}

\* Node `node` returns `update` and takes the edges to `goto`, leaving the state
\* object as s; the last node of a step to return ends the step.
Finish(node, s, update, goto) ==
    LET w == Merge(writes, [n \in {node} |-> [update |-> update, goto |-> goto]])
    IN  IF active \ {node} # {}
        THEN /\ active' = active \ {node}
             /\ writes' = w
             /\ state' = s
             /\ pc' = pc
        ELSE IF Conflict(w)
        THEN /\ active' = {}
             /\ writes' = EmptyDict
             /\ state' = s
             /\ pc' = "RAISED"
        ELSE /\ active' = Triggered(w)
             /\ writes' = EmptyDict
             /\ state' = Applied(s, w)
             /\ pc' = IF Triggered(w) = {} THEN "END" ELSE "RUNNING"

\* a node raises: the run ends with the exception
Abort ==
    /\ active' = {}
    /\ writes' = EmptyDict
    /\ state' = state
    /\ pc' = "RAISED"

\* the outcomes of an LLM call
Invocations(contents) == {Raised} \cup {Returned(c) : c \in contents}

\* the analysis an agent's LLM call returns about the code it was given
AnalysisOf(agent, code) == [by |-> agent, of |-> code]

-----------------------------------------------------------------------------
(* patterns/03_parallel_processing.py *)

P03 == "patterns/03_parallel_processing"

P03_coder_prompt(s) == [node |-> "coder", input |-> s["input"]]
P03_coder_agent(s, r) == [code |-> r.content]

P03_security_prompt(s) == [node |-> "security_agent", code |-> s["code"]]
P03_security_agent(s, r) == [security_analysis |-> r.content]

P03_performance_prompt(s) == [node |-> "performance_agent", code |-> s["code"]]
P03_performance_agent(s, r) == [performance_analysis |-> r.content]

P03_style_prompt(s) == [node |-> "style_agent", code |-> s["code"]]
P03_style_agent(s, r) == [style_analysis |-> r.content]

P03_synthesis_prompt(s) ==
    [node |-> "synthesis",
     security |-> s["security_analysis"],
     performance |-> s["performance_analysis"],
     style |-> s["style_analysis"]]

P03_synthesis_agent(s, r) == [final_report |-> r.content]

\* mutant: the style agent is started by the performance agent instead of the
\* coder, in the step in which synthesis is started
P03_builder_chained(node) ==
    CASE node = "START"             -> {"coder"}
      [] node = "coder"             -> {"security_agent", "performance_agent"}
      [] node = "security_agent"    -> {"synthesis"}
      [] node = "performance_agent" -> {"synthesis", "style_agent"}
      [] node = "style_agent"       -> {"synthesis"}
      [] node = "synthesis"         -> {}

\* the edges of the graph: the nodes named by the edges out of `node`
P03_builder(node) ==
    CASE node = "START"             -> {"coder"}
      [] node = "coder"             -> {"security_agent", "performance_agent", "style_agent"}
      [] node = "security_agent"    -> {"synthesis"}
      [] node = "performance_agent" -> {"synthesis"}
      [] node = "style_agent"       -> {"synthesis"}
      [] node = "synthesis"         -> {}

P03_coder ==
    /\ prog = P03 /\ pc = "RUNNING" /\ "coder" \in active
    /\ \E r \in Invocations({NewCode}) :
        /\ prompt' = P03_coder_prompt(state)
        /\ response' = r
        /\ log' = Executed("coder", IF r.raised THEN "raised" ELSE "ok")
        /\ IF r.raised THEN Abort
           ELSE Finish("coder", state, P03_coder_agent(state, r), P03_builder("coder"))
    /\ nGen' = nGen + 1
    /\ UNCHANGED <<prog, radon, nEval, nOpt, report>>

P03_security ==
    /\ prog = P03 /\ pc = "RUNNING" /\ "security_agent" \in active
    /\ \E r \in Invocations({AnalysisOf("security_agent", state["code"])}) :
        /\ prompt' = P03_security_prompt(state)
        /\ response' = r
        /\ log' = Executed("security_agent", IF r.raised THEN "raised" ELSE "ok")
        /\ IF r.raised THEN Abort
           ELSE Finish("security_agent", state, P03_security_agent(state, r),
                       P03_builder("security_agent"))
    /\ UNCHANGED <<prog, radon, nGen, nEval, nOpt, report>>

P03_performance ==
    /\ prog = P03 /\ pc = "RUNNING" /\ "performance_agent" \in active
    /\ \E r \in Invocations({AnalysisOf("performance_agent", state["code"])}) :
        /\ prompt' = P03_performance_prompt(state)
        /\ response' = r
        /\ log' = Executed("performance_agent", IF r.raised THEN "raised" ELSE "ok")
        /\ IF r.raised THEN Abort
           ELSE Finish("performance_agent", state, P03_performance_agent(state, r),
                       P03_builder("performance_agent"))
    /\ UNCHANGED <<prog, radon, nGen, nEval, nOpt, report>>

P03_style ==
    /\ prog = P03 /\ pc = "RUNNING" /\ "style_agent" \in active
    /\ \E r \in Invocations({AnalysisOf("style_agent", state["code"])}) :
        /\ prompt' = P03_style_prompt(state)
        /\ response' = r
        /\ log' = Executed("style_agent", IF r.raised THEN "raised" ELSE "ok")
        /\ IF r.raised THEN Abort
           ELSE Finish("style_agent", state, P03_style_agent(state, r),
                       P03_builder("style_agent"))
    /\ UNCHANGED <<prog, radon, nGen, nEval, nOpt, report>>

\* state["security_analysis"] etc.: a missing key raises KeyError
P03_synthesis ==
    /\ prog = P03 /\ pc = "RUNNING" /\ "synthesis" \in active
    /\ IF {"security_analysis", "performance_analysis", "style_analysis"} \subseteq DOMAIN state
       THEN \E r \in Invocations({[report_of |-> P03_synthesis_prompt(state)]}) :
               /\ prompt' = P03_synthesis_prompt(state)
               /\ response' = r
               /\ log' = Executed("synthesis", IF r.raised THEN "raised" ELSE "ok")
               /\ IF r.raised THEN Abort
                  ELSE Finish("synthesis", state, P03_synthesis_agent(state, r),
                              P03_builder("synthesis"))
       ELSE /\ prompt' = prompt
            /\ response' = response
            /\ log' = Executed("synthesis", "KeyError")
            /\ Abort
    /\ UNCHANGED <<prog, radon, nGen, nEval, nOpt, report>>

-----------------------------------------------------------------------------
(* patterns_simple/03_parallel_processing.py *)

PS03 == "patterns_simple/03_parallel_processing"

PS03_coder_prompt(s) == [node |-> "coder", input |-> s["input"]]
PS03_coder(s, r) == [code |-> r.content]

PS03_security_prompt(s) == [node |-> "security_check", code |-> s["code"]]
PS03_security_check(s, r) == [security |-> r.content]

PS03_performance_prompt(s) == [node |-> "performance_check", code |-> s["code"]]
PS03_performance_check(s, r) == [performance |-> r.content]

\* "\n\n".join([state["security"], state["performance"]])
PS03_synthesis_prompt(s) ==
    [node |-> "synthesis_agent", combined |-> <<s["security"], s["performance"]>>]

PS03_synthesis_agent(s, r) == [report |-> r.content]

PS03_builder(node) ==
    CASE node = "START"             -> {"coder"}
      [] node = "coder"             -> {"security_check", "performance_check"}
      [] node = "security_check"    -> {"synthesis_agent"}
      [] node = "performance_check" -> {"synthesis_agent"}
      [] node = "synthesis_agent"   -> {}

PS03_coder_node ==
    /\ prog = PS03 /\ pc = "RUNNING" /\ "coder" \in active
    /\ \E r \in Invocations({NewCode}) :
        /\ prompt' = PS03_coder_prompt(state)
        /\ response' = r
        /\ log' = Executed("coder", IF r.raised THEN "raised" ELSE "ok")
        /\ IF r.raised THEN Abort
           ELSE Finish("coder", state, PS03_coder(state, r), PS03_builder("coder"))
    /\ nGen' = nGen + 1
    /\ UNCHANGED <<prog, radon, nEval, nOpt, report>>

PS03_security_node ==
    /\ prog = PS03 /\ pc = "RUNNING" /\ "security_check" \in active
    /\ \E r \in Invocations({AnalysisOf("security_check", state["code"])}) :
        /\ prompt' = PS03_security_prompt(state)
        /\ response' = r
        /\ log' = Executed("security_check", IF r.raised THEN "raised" ELSE "ok")
        /\ IF r.raised THEN Abort
           ELSE Finish("security_check", state, PS03_security_check(state, r),
                       PS03_builder("security_check"))
    /\ UNCHANGED <<prog, radon, nGen, nEval, nOpt, report>>

PS03_performance_node ==
    /\ prog = PS03 /\ pc = "RUNNING" /\ "performance_check" \in active
    /\ \E r \in Invocations({AnalysisOf("performance_check", state["code"])}) :
        /\ prompt' = PS03_performance_prompt(state)
        /\ response' = r
        /\ log' = Executed("performance_check", IF r.raised THEN "raised" ELSE "ok")
        /\ IF r.raised THEN Abort
           ELSE Finish("performance_check", state, PS03_performance_check(state, r),
                       PS03_builder("performance_check"))
    /\ UNCHANGED <<prog, radon, nGen, nEval, nOpt, report>>

PS03_synthesis_node ==
    /\ prog = PS03 /\ pc = "RUNNING" /\ "synthesis_agent" \in active
    /\ IF {"security", "performance"} \subseteq DOMAIN state
       THEN \E r \in Invocations({[report_of |-> PS03_synthesis_prompt(state)]}) :
               /\ prompt' = PS03_synthesis_prompt(state)
               /\ response' = r
               /\ log' = Executed("synthesis_agent", IF r.raised THEN "raised" ELSE "ok")
               /\ IF r.raised THEN Abort
                  ELSE Finish("synthesis_agent", state, PS03_synthesis_agent(state, r),
                              PS03_builder("synthesis_agent"))
       ELSE /\ prompt' = prompt
            /\ response' = response
            /\ log' = Executed("synthesis_agent", "KeyError")
            /\ Abort
    /\ UNCHANGED <<prog, radon, nGen, nEval, nOpt, report>>

-----------------------------------------------------------------------------
(* solution/03_parallel_processing.py *)

S03 == "solution/03_parallel_processing"

\* the state given to workflow.invoke in the main block
S03_InitialState == [input |-> "task", failed_agents |-> <<>>]

\* the parallel agents: node name, name recorded on failure, key of the analysis
S03_Agents ==
    { [node |-> "security_agent",      name |-> "security",      key |-> "security_analysis"],
      [node |-> "performance_agent",   name |-> "performance",   key |-> "performance_analysis"],
      [node |-> "style_agent",         name |-> "style",         key |-> "style_analysis"],
      [node |-> "documentation_agent", name |-> "documentation", key |-> "documentation_analysis"] }

S03_Agent(name) == CHOOSE a \in S03_Agents : a.name = name

\* x in list
InList(x, list) == \E i \in DOMAIN list : list[i] = x

S03_coder_prompt(s) == [node |-> "coder", input |-> s["input"]]
S03_coder_agent(s, r) == [code |-> r.content]

S03_agent_prompt(a, s) == [node |-> a.node, code |-> s["code"]]

\* security_agent, performance_agent, style_agent, documentation_agent: the
\* except branch appends the agent's name to the list it got from the state
S03_parallel_agent(a, s, r) ==
    IF r.raised
    THEN [failed_agents |-> Append(Get(s, "failed_agents", <<>>), a.name)]
    ELSE [k \in {a.key} |-> r.content]

\* The list of state.get("failed_agents", []) is the list object held by the
\* state, shared by the nodes of the step: append changes it in place.
S03_append_in_place(a, s, r) ==
    IF r.raised /\ "failed_agents" \in DOMAIN s
    THEN [s EXCEPT !["failed_agents"] = Append(@, a.name)]
    ELSE s

S03_general_fallback_prompt(s) == [node |-> "general_fallback", code |-> s["code"]]

S03_general_fallback_agent(s, r) ==
    IF r.raised
    THEN [general_fallback_analysis |-> [unavailable |-> TRUE]]
    ELSE [general_fallback_analysis |-> r.content]

\* the sections of all_analyses, in order, and the failed agents
S03_synthesis_prompt(s) ==
    LET failed_agents == Get(s, "failed_agents", <<>>)
        Section(a) ==
            IF a.key \in DOMAIN s THEN <<[analysis |-> s[a.key]]>>
            ELSE IF InList(a.name, failed_agents) THEN <<[failed |-> a.name]>>
            ELSE <<>>
        fallback ==
            IF failed_agents # <<>> /\ "general_fallback_analysis" \in DOMAIN s
            THEN <<[fallback |-> s["general_fallback_analysis"], covering |-> failed_agents]>>
            ELSE <<>>
    IN  [node |-> "synthesis",
         all_analyses |-> Section(S03_Agent("security")) \o Section(S03_Agent("performance"))
                          \o Section(S03_Agent("style")) \o Section(S03_Agent("documentation"))
                          \o fallback,
         failed_agents |-> failed_agents]

S03_synthesis_agent(s, r) == [final_report |-> r.content]

S03_check_for_failures(s) ==
    IF Get(s, "failed_agents", <<>>) # <<>> THEN "general_fallback" ELSE "synthesis"

\* the edges of the graph; the conditional edge of a parallel agent is evaluated
\* on the state as that agent sees it when it returns
S03_builder(node, s) ==
    CASE node = "START"            -> {"coder"}
      [] node = "coder"            -> {a.node : a \in S03_Agents}
      [] node \in {a.node : a \in S03_Agents} ->
            IF S03_check_for_failures(s) = "general_fallback"
            THEN {"general_fallback"} ELSE {"synthesis"}
      [] node = "general_fallback" -> {"synthesis"}
      [] node = "synthesis"        -> {}

S03_coder ==
    /\ prog = S03 /\ pc = "RUNNING" /\ "coder" \in active
    /\ \E r \in Invocations({NewCode}) :
        /\ prompt' = S03_coder_prompt(state)
        /\ response' = r
        /\ log' = Executed("coder", IF r.raised THEN "raised" ELSE "ok")
        /\ IF r.raised THEN Abort
           ELSE Finish("coder", state, S03_coder_agent(state, r),
                       S03_builder("coder", Merge(state, S03_coder_agent(state, r))))
    /\ nGen' = nGen + 1
    /\ UNCHANGED <<prog, radon, nEval, nOpt, report>>

\* one of the four parallel agents runs
S03_run_agent(a) ==
    \E r \in Invocations({AnalysisOf(a.node, state["code"])}) :
        LET update == S03_parallel_agent(a, state, r)
            seen   == Merge(S03_append_in_place(a, state, r), update)
        IN  /\ prompt' = S03_agent_prompt(a, state)
            /\ response' = r
            /\ log' = Executed(a.node, IF r.raised THEN "failed" ELSE "ok")
            /\ Finish(a.node, S03_append_in_place(a, state, r), update,
                      S03_builder(a.node, seen))

S03_security ==
    /\ prog = S03 /\ pc = "RUNNING" /\ "security_agent" \in active
    /\ S03_run_agent(S03_Agent("security"))
    /\ UNCHANGED <<prog, radon, nGen, nEval, nOpt, report>>

S03_performance ==
    /\ prog = S03 /\ pc = "RUNNING" /\ "performance_agent" \in active
    /\ S03_run_agent(S03_Agent("performance"))
    /\ UNCHANGED <<prog, radon, nGen, nEval, nOpt, report>>

S03_style ==
    /\ prog = S03 /\ pc = "RUNNING" /\ "style_agent" \in active
    /\ S03_run_agent(S03_Agent("style"))
    /\ UNCHANGED <<prog, radon, nGen, nEval, nOpt, report>>

S03_documentation ==
    /\ prog = S03 /\ pc = "RUNNING" /\ "documentation_agent" \in active
    /\ S03_run_agent(S03_Agent("documentation"))
    /\ UNCHANGED <<prog, radon, nGen, nEval, nOpt, report>>

S03_general_fallback ==
    /\ prog = S03 /\ pc = "RUNNING" /\ "general_fallback" \in active
    /\ \E r \in Invocations({AnalysisOf("general_fallback", state["code"])}) :
        /\ prompt' = S03_general_fallback_prompt(state)
        /\ response' = r
        /\ log' = Executed("general_fallback", IF r.raised THEN "failed" ELSE "ok")
        /\ Finish("general_fallback", state, S03_general_fallback_agent(state, r),
                  S03_builder("general_fallback", state))
    /\ UNCHANGED <<prog, radon, nGen, nEval, nOpt, report>>

S03_synthesis ==
    /\ prog = S03 /\ pc = "RUNNING" /\ "synthesis" \in active
    /\ \E r \in Invocations({[report_of |-> S03_synthesis_prompt(state)]}) :
        /\ prompt' = S03_synthesis_prompt(state)
        /\ response' = r
        /\ log' = Executed("synthesis", IF r.raised THEN "raised" ELSE "ok")
        /\ IF r.raised THEN Abort
           ELSE Finish("synthesis", state, S03_synthesis_agent(state, r),
                       S03_builder("synthesis", state))
    /\ UNCHANGED <<prog, radon, nGen, nEval, nOpt, report>>

-----------------------------------------------------------------------------
(* solution/06_orchestrator_worker.py *)

(***************************************************************************)
(* The orchestrator's conditional edge returns one Send("worker", ...) per *)
(* available subtask: the workers of a step run concurrently, each on its  *)
(* own argument, and worker_outputs, the one key with a reducer            *)
(* (operator.add), takes the concatenation of what they return, in the     *)
(* order of the Sends.  For this program `writes` holds the Sends of the   *)
(* current step by position of the subtask in the list, with what the      *)
(* worker has returned.  Strings are sequences of words: a name occurs in  *)
(* an output when its words do, in a row.                                   *)
(***************************************************************************)

OW06 == "solution/06_orchestrator_worker"

\* the subtasks the orchestrator's LLM can return
OW_Names == { <<"api">>, <<"api", "tests">> }

OW_Dependencies ==
    { <<>>, << <<"api">> >>, << <<"api", "tests">> >>, << <<"ghost">> >> }

OW_Kinds ==
    { [type |-> "backend", priority |-> 2],
      [type |-> "testing", priority |-> 1] }

OW_SubTasks ==
    { [name |-> n, description |-> <<"implement">> \o n, type |-> k.type,
       dependencies |-> d, priority |-> k.priority] :
        n \in OW_Names, d \in OW_Dependencies, k \in OW_Kinds }

OW_Breakdowns == UNION { [1 .. n -> OW_SubTasks] : n \in 0 .. MaxSubtasks }

\* what a worker's LLM writes: it may mention the name of another subtask
OW_WorkerContents == { <<"code">>, <<"code", "for", "api", "tests">> }

OW_ValidationResults ==
    { [can_combine |-> b, issues |-> <<>>, suggestions |-> <<>>] : b \in BOOLEAN }

RECURSIVE OW_sorted(_)
\* sorted(keys)
OW_sorted(keys) ==
    IF keys = {} THEN <<>>
    ELSE LET least == CHOOSE k \in keys : \A j \in keys : k <= j
         IN  <<least>> \o OW_sorted(keys \ {least})

RECURSIVE OW_extend(_, _)
\* the subtasks of each priority in turn, in the order the LLM listed them
OW_extend(subtasks, priorities) ==
    IF priorities = <<>> THEN <<>>
    ELSE LET HasPriority(task) == task.priority = Head(priorities)
         IN  SelectSeq(subtasks, HasPriority) \o OW_extend(subtasks, Tail(priorities))

OW_orchestrator_prompt(s) == [node |-> "orchestrator", input |-> s["input"]]

OW_orchestrator_agent(s, r) ==
    LET subtasks == r.content
        ordered_subtasks ==
            OW_extend(subtasks, OW_sorted({subtasks[i].priority : i \in DOMAIN subtasks}))
    IN  [subtasks |-> ordered_subtasks,
         worker_outputs |-> <<>>,
         completed_subtasks |-> <<>>]

\* subtask["name"] not in completed and all(dep in completed for dep in ...)
OW_is_available(subtask, completed) ==
    /\ ~InList(subtask.name, completed)
    /\ \A d \in DOMAIN subtask.dependencies : InList(subtask.dependencies[d], completed)

OW_create_workers_redispatching(s) ==
    LET completed == Get(s, "completed_subtasks", <<>>)
        available == {i \in DOMAIN s["subtasks"] :
                        \A d \in DOMAIN s["subtasks"][i].dependencies :
                            InList(s["subtasks"][i].dependencies[d], completed)}
    IN  [i \in available |-> [subtask |-> s["subtasks"][i]]]

\* the Sends, by position of the subtask in the list
OW_create_workers(s) ==
    LET completed == Get(s, "completed_subtasks", <<>>)
        available == {i \in DOMAIN s["subtasks"] :
                        OW_is_available(s["subtasks"][i], completed)}
    IN  [i \in available |-> [subtask |-> s["subtasks"][i]]]

OW_check_workers_needed(s) ==
    LET completed == Get(s, "completed_subtasks", <<>>) IN
    IF \E i \in DOMAIN s["subtasks"] : OW_is_available(s["subtasks"][i], completed)
    THEN "workers" ELSE "validation"

OW_worker_prompt(ws) ==
    [node |-> "worker", name |-> ws.subtask.name, description |-> ws.subtask.description]

\* f"BACKEND - {subtask['name']}:\n{response.content}"
OW_worker_agent(ws, r) ==
    LET subtask == ws.subtask
        label == CASE subtask.type = "frontend" -> "FRONTEND"
                   [] subtask.type = "backend"  -> "BACKEND"
                   [] subtask.type = "database" -> "DATABASE"
                   [] subtask.type = "testing"  -> "TESTING"
                   [] OTHER                     -> "GENERIC"
    IN  [worker_outputs |-> << <<label, "-">> \o subtask.name \o <<":">> \o r.content >>]

RECURSIVE OW_mark(_, _, _)
\* the loop of track_completion over the subtasks that are left
OW_mark(subtasks, completed, worker_outputs) ==
    IF subtasks = <<>> THEN completed
    ELSE LET subtask_name == Head(subtasks).name
             found == /\ ~InList(subtask_name, completed)
                      /\ \E o \in DOMAIN worker_outputs :
                            Contains(worker_outputs[o], subtask_name)
         IN  OW_mark(Tail(subtasks),
                     IF found THEN Append(completed, subtask_name) ELSE completed,
                     worker_outputs)

OW_track_completion(s) ==
    [completed_subtasks |->
        OW_mark(s["subtasks"], Get(s, "completed_subtasks", <<>>),
                Get(s, "worker_outputs", <<>>))]

OW_validation_prompt(s) ==
    [node |-> "validation", outputs |-> Get(s, "worker_outputs", <<>>)]

OW_validation_agent(s, r) ==
    [validation_result |-> [can_combine |-> r.content.can_combine,
                            issues |-> r.content.issues,
                            suggestions |-> r.content.suggestions]]

OW_synthesis_prompt(s) ==
    [node |-> "synthesis", outputs |-> Get(s, "worker_outputs", <<>>),
     validation |-> Get(s, "validation_result", EmptyDict)]

OW_synthesis_agent(s, r) == [final_result |-> r.content]

\* lambda state: state
OW_create_workers_node(s) == s

OW_check_completion(s) ==
    Len(Get(s, "completed_subtasks", <<>>)) >= Len(Get(s, "subtasks", <<>>))

\* the state after an update: worker_outputs is Annotated[List[str], operator.add]
OW_OrchestratorState(s, update) ==
    LET merged == Merge(s, update) IN
    IF "worker_outputs" \in DOMAIN update
    THEN [merged EXCEPT !["worker_outputs"] =
                            Get(s, "worker_outputs", <<>>) \o update["worker_outputs"]]
    ELSE merged

RECURSIVE OW_collect(_, _)
\* what the workers of a step have returned, in the order of the Sends
OW_collect(w, positions) ==
    IF positions = {} THEN <<>>
    ELSE LET first == CHOOSE i \in positions : \A j \in positions : i <= j
         IN  w[first].update["worker_outputs"] \o OW_collect(w, positions \ {first})

\* the log after a node has run; subtask is the position of a worker's subtask
OW_Executed(node, outcome, subtask) ==
    Append(log, [node |-> node, outcome |-> outcome, subtask |-> subtask])

\* the conditional edge create_workers, evaluated on the state s
OW_dispatch(s) ==
    LET sends == OW_create_workers(s) IN
    IF DOMAIN sends = {}
    THEN /\ active' = {}
         /\ writes' = EmptyDict
         /\ pc' = "END"
    ELSE /\ active' = {"worker"}
         /\ writes' = [i \in DOMAIN sends |->
                          [arg |-> sends[i], returned |-> FALSE, update |-> EmptyDict]]
         /\ pc' = "RUNNING"

\* the edges of the graph that are not Sends
OW_builder(node, s) ==
    CASE node = "START"            -> {"orchestrator"}
      [] node = "worker"           -> {"track_completion"}
      [] node = "track_completion" ->
            IF OW_check_workers_needed(s) = "workers"
            THEN {"create_workers_node"} ELSE {"validation"}
      [] node = "validation"       -> {"synthesis"}
      [] node = "synthesis"        -> {}

OW_orchestrator ==
    /\ prog = OW06 /\ pc = "RUNNING" /\ active = {"orchestrator"}
    /\ \E r \in Invocations(OW_Breakdowns) :
        /\ prompt' = OW_orchestrator_prompt(state)
        /\ response' = r
        /\ log' = OW_Executed("orchestrator", IF r.raised THEN "raised" ELSE "ok", 0)
        /\ IF r.raised THEN Abort
           ELSE /\ state' = OW_OrchestratorState(state, OW_orchestrator_agent(state, r))
                /\ OW_dispatch(state')
    /\ UNCHANGED <<prog, radon, nGen, nEval, nOpt, report>>

OW_worker ==
    /\ prog = OW06 /\ pc = "RUNNING" /\ active = {"worker"}
    /\ \E i \in {j \in DOMAIN writes : ~writes[j].returned} :
       \E r \in Invocations(OW_WorkerContents) :
        /\ prompt' = OW_worker_prompt(writes[i].arg)
        /\ response' = r
        /\ log' = OW_Executed("worker", IF r.raised THEN "raised" ELSE "ok", i)
        /\ IF r.raised THEN Abort
           ELSE LET w == [writes EXCEPT ![i] = [arg |-> writes[i].arg,
                                                 returned |-> TRUE,
                                                 update |-> OW_worker_agent(writes[i].arg, r)]]
                IN  IF \E j \in DOMAIN w : ~w[j].returned
                    THEN /\ writes' = w
                         /\ UNCHANGED <<state, active, pc>>
                    ELSE /\ state' = OW_OrchestratorState(state,
                                        [worker_outputs |-> OW_collect(w, DOMAIN w)])
                         /\ active' = OW_builder("worker", state')
                         /\ writes' = EmptyDict
                         /\ pc' = "RUNNING"
    /\ nGen' = nGen + 1
    /\ UNCHANGED <<prog, radon, nEval, nOpt, report>>

OW_track_completion_node ==
    /\ prog = OW06 /\ pc = "RUNNING" /\ active = {"track_completion"}
    /\ state' = OW_OrchestratorState(state, OW_track_completion(state))
    /\ log' = OW_Executed("track_completion", "ok", 0)
    /\ active' = OW_builder("track_completion", state')
    /\ UNCHANGED <<prog, radon, pc, prompt, response, nGen, nEval, nOpt, writes, report>>

OW_create_workers_node_run ==
    /\ prog = OW06 /\ pc = "RUNNING" /\ active = {"create_workers_node"}
    /\ state' = OW_OrchestratorState(state, OW_create_workers_node(state))
    /\ log' = OW_Executed("create_workers_node", "ok", 0)
    /\ OW_dispatch(state')
    /\ UNCHANGED <<prog, radon, prompt, response, nGen, nEval, nOpt, report>>

OW_validation ==
    /\ prog = OW06 /\ pc = "RUNNING" /\ active = {"validation"}
    /\ \E r \in Invocations(OW_ValidationResults) :
        /\ prompt' = OW_validation_prompt(state)
        /\ response' = r
        /\ log' = OW_Executed("validation", IF r.raised THEN "raised" ELSE "ok", 0)
        /\ IF r.raised THEN Abort
           ELSE /\ state' = OW_OrchestratorState(state, OW_validation_agent(state, r))
                /\ active' = OW_builder("validation", state')
                /\ UNCHANGED <<writes, pc>>
    /\ nEval' = nEval + 1
    /\ UNCHANGED <<prog, radon, nGen, nOpt, report>>

OW_synthesis ==
    /\ prog = OW06 /\ pc = "RUNNING" /\ active = {"synthesis"}
    /\ \E r \in Invocations({[synthesis_of |-> OW_synthesis_prompt(state)]}) :
        /\ prompt' = OW_synthesis_prompt(state)
        /\ response' = r
        /\ log' = OW_Executed("synthesis", IF r.raised THEN "raised" ELSE "ok", 0)
        /\ IF r.raised THEN Abort
           ELSE /\ state' = OW_OrchestratorState(state, OW_synthesis_agent(state, r))
                /\ active' = OW_builder("synthesis", state')
                /\ writes' = EmptyDict
                /\ pc' = "END"
    /\ UNCHANGED <<prog, radon, nGen, nEval, nOpt, report>>

-----------------------------------------------------------------------------
(* The specification *)

Programs == {P05, S05R, S05, PS05, S02}

\* the edge out of START
Entry(p) ==
    CASE p = P05  -> P05_builder("START", InitialState)
      [] p = S05R -> S05R_builder("START", InitialState)
      [] p = S05  -> S05_builder("START", InitialState)
      [] p = PS05 -> PS05_builder("START", InitialState)
      [] p = S02  -> S02_builder("START", InitialState)
      [] p = P07  -> P07_builder("START", InitialState)
      [] p = P06  -> P06_builder("START", InitialState)
      [] p = SI06 -> SI06_builder("START", InitialState)
      [] p = S07  -> S07_builder("START", S07_InitialState)
      [] p = S06  -> S06_builder("START", InitialState)
      [] p = SS07 -> SS07_builder("START", InitialState)
      [] p \in {P03, PS03, S03, OW06} -> "RUNNING"

\* the nodes of the first step of a graph with parallel branches
EntryNodes(p) ==
    CASE p = P03  -> P03_builder("START")
      [] p = PS03 -> PS03_builder("START")
      [] p = S03  -> S03_builder("START", S03_InitialState)
      [] p = OW06 -> OW_builder("START", InitialState)
      [] OTHER    -> {}

\* the argument of workflow.invoke in the program's main block
Input(p) ==
    CASE p = S07 -> S07_InitialState
      [] p = S03 -> S03_InitialState
      [] OTHER   -> InitialState

\* workflow.invoke({"input": task, ...}) of one of the programs in P
Invoke(P) ==
    /\ prog \in P
    /\ radon \in (IF prog = S05 THEN BOOLEAN ELSE {FALSE})
    /\ pc = Entry(prog)
    /\ state = Input(prog)
    /\ prompt = NoPrompt
    /\ response = NoResponse
    /\ nGen = 0 /\ nEval = 0 /\ nOpt = 0
    /\ active = EntryNodes(prog)
    /\ writes = EmptyDict
    /\ log = <<>>
    /\ report = EmptyDict

Init == Invoke(Programs)

P05_Next ==
    \/ P05_generator
    \/ P05_evaluator
    \/ P05_optimiser
    \/ P05_finalise
    \/ P05_main_generate

Next ==
    \/ P05_Next
    \/ S05R_generator
    \/ S05R_evaluator
    \/ S05R_optimiser
    \/ S05R_finalise
    \/ S05_generator
    \/ S05_evaluator
    \/ S05_optimiser
    \/ S05_finalise
    \/ PS05_generator_node
    \/ PS05_evaluator_node
    \/ PS05_optimiser_node
    \/ S02_coder_node
    \/ S02_evaluator_node
    \/ S02_improver_node

Spec == Init /\ [][Next]_vars

\* The runs of patterns/05_evaluator_optimiser; LangGraph runs the next node as
\* soon as the previous one has returned.
P05_Fair == Invoke({P05}) /\ [][P05_Next]_vars /\ WF_vars(P05_Next)

(* The production-ready workflows *)

ProductionPrograms == {P07, P06, SI06, S07}

P07_Next ==
    \/ P07_coder
    \/ P07_reviewer
    \/ P07_approval
    \/ P07_handle
    \/ P07_finalise

Production_Next ==
    \/ P07_Next
    \/ P06_coder
    \/ P06_reviewer
    \/ P06_approval
    \/ P06_handle
    \/ P06_finalise
    \/ SI06_coder_node
    \/ SI06_approver_node
    \/ SI06_error_handler_node
    \/ SI06_deploy_node
    \/ S07_coder
    \/ S07_reviewer
    \/ S07_compliance
    \/ S07_approval
    \/ S07_human_approval
    \/ S07_manual_review
    \/ S07_handle
    \/ S07_finalise

Production == Invoke(ProductionPrograms) /\ [][Production_Next]_vars

\* The runs of patterns/07_production_ready, each node run as soon as the previous
\* one has returned.
P07_Fair == Invoke({P07}) /\ [][P07_Next]_vars /\ WF_vars(P07_Next)

(* The workflows with error recovery *)

S06_Next ==
    \/ S06_coder
    \/ S06_reviewer
    \/ S06_human_approval
    \/ S06_error_recovery
    \/ S06_finalise

\* The runs of solution/06_production_ready, each node run as soon as the
\* previous one has returned.
S06_Fair == Invoke({S06}) /\ [][S06_Next]_vars /\ WF_vars(S06_Next)

SS07_Next ==
    \/ SS07_coder
    \/ SS07_reviewer
    \/ SS07_compliance
    \/ SS07_approval
    \/ SS07_handle
    \/ SS07_manual_review
    \/ SS07_finalise

\* The runs of solutions/07_production_ready_solution, each node run as soon as
\* the previous one has returned.
SS07_Fair == Invoke({SS07}) /\ [][SS07_Next]_vars /\ WF_vars(SS07_Next)

(* The workflows with parallel branches *)

ParallelPrograms == {P03, PS03, S03}

Parallel_Next ==
    \/ P03_coder
    \/ P03_security
    \/ P03_performance
    \/ P03_style
    \/ P03_synthesis
    \/ PS03_coder_node
    \/ PS03_security_node
    \/ PS03_performance_node
    \/ PS03_synthesis_node
    \/ S03_coder
    \/ S03_security
    \/ S03_performance
    \/ S03_style
    \/ S03_documentation
    \/ S03_general_fallback
    \/ S03_synthesis

Parallel == Invoke(ParallelPrograms) /\ [][Parallel_Next]_vars

-----------------------------------------------------------------------------
(* Properties of the evaluator-optimiser workflows *)

IterationCount == Get(state, "iteration_count", 0)
CurrentEvaluation == Get(state, "current_evaluation", EmptyDict)
Finalised == pc \in {"finalise", "END"}

\* The counts of patterns/05_evaluator_optimiser stay under the cap, and a run
\* finalised on an evaluation that is below the threshold and asks to continue
\* (which an evaluator that always answers so leads to) has used the cap up.
C1_CapSafety ==
    prog = P05 =>
        /\ nOpt <= 3 /\ nEval <= 4 /\ IterationCount <= 3
        /\ pc = "END" => "final_code" \in DOMAIN state
        /\ (Finalised /\ CurrentEvaluation.score < 8 /\ CurrentEvaluation.should_continue)
              => (nEval = 4 /\ nOpt = 3 /\ IterationCount = 3)

\* C1: in patterns/05_evaluator_optimiser the optimiser runs at most 3 times and
\* the evaluator at most 4 times whatever the evaluator answers; a run that ends
\* has gone through finalise; a run finalised on an evaluation that is below the
\* threshold and asks to continue has made exactly 4 evaluations and stands at
\* iteration_count = 3; and every run reaches END.
C1_IterationCapAbsolute ==
    /\ []C1_CapSafety
    /\ (prog = P05) => <>(pc = "END")

C1_Witness ==
    /\ prog = P05 /\ pc = "END"
    /\ CurrentEvaluation.score < 8 /\ CurrentEvaluation.should_continue
    /\ nEval = 4 /\ IterationCount = 3

\* C2: in patterns/05_evaluator_optimiser the decision taken after an evaluation
\* is 'optimise' exactly when iteration_count < 3, the evaluation's should_continue
\* flag is not false and its score is below 8; otherwise it is 'finalise'.
C2_OptimiseIff ==
    (prog = P05 /\ pc \in {"optimiser", "finalise"}) =>
        ( pc = "optimiser" <=>
            ( /\ state["iteration_count"] < 3
              /\ state["current_evaluation"]["should_continue"] # FALSE
              /\ state["current_evaluation"]["score"] < 8 ) )

\* a score equal to the threshold finalises, under the cap and with the flag set
C2_Witness ==
    /\ prog = P05 /\ pc = "finalise"
    /\ IterationCount < 3
    /\ CurrentEvaluation.score = 8 /\ CurrentEvaluation.should_continue

\* C3: in patterns/05_evaluator_optimiser, when the evaluation of the generator's
\* code scores 8 or more, the optimiser never runs, no second evaluation is made,
\* iteration_count stays 0 and final_code is the generator's code.
C3_FastTrack ==
    (prog = P05 /\ nEval = 1 /\ CurrentEvaluation.score >= 8) =>
        /\ Finalised
        /\ nOpt = 0 /\ IterationCount = 0
        /\ pc = "END" => state["final_code"] = [id |-> 1]

C3_Witness ==
    /\ prog = P05 /\ pc = "END" /\ nEval = 1 /\ nOpt = 0
    /\ CurrentEvaluation.score >= 8 /\ CurrentEvaluation.should_continue
    /\ state["final_code"] = [id |-> 1]

\* C4: in simple/02_conditional_workflow the number of improver calls of a run
\* has a cap of its own: whatever the evaluator answers, the improver is not
\* called as many as MaxCalls times (MaxCalls is above the cap of every other
\* variant, and the statement fails the same way for any larger value).
C4_ImproverBounded == prog = S02 => nOpt < MaxCalls

\* evaluation_history of solution/05_evaluator_optimisr, history of
\* solution/05_evaluator_optimiser
History ==
    IF prog = S05R THEN Get(state, "evaluation_history", <<>>)
    ELSE Get(state, "history", <<>>)

\* C5: in solution/05_evaluator_optimisr and solution/05_evaluator_optimiser, once
\* finalise is reached the history has iteration_count + 1 entries, whose
\* iteration indices are 0, 1, ..., iteration_count in this order.

C5_HistoryLength ==
    (prog \in {S05R, S05} /\ Finalised) =>
        /\ Len(History) = state["iteration_count"] + 1
        /\ \A i \in 1 .. Len(History) : History[i].iteration = i - 1

C5_Witness ==
    /\ prog = S05R /\ pc = "END"
    /\ state["iteration_count"] = 5 /\ Len(History) = 6
    /\ History[6].iteration = 5

\* the evaluator responses that Python's int() rejects
NotAnInteger ==
    { <<>>, <<"8", "/", "1", "0">>, <<"7", ".", "5">>,
      <<"S", "c", "o", "r", "e", ":", " ", "9">> }

\* C6: in patterns_simple/05_evaluator_optimiser and simple/02_conditional_workflow,
\* after an evaluator response that is not an integer the score is 5 and the run
\* goes on to the refinement node, unless the iteration cap of
\* patterns_simple/05 applies, in which case it ends.

C6_NeutralFallback ==
    (prog \in {PS05, S02} /\ prompt.node = "evaluator" /\ response \in NotAnInteger) =>
        /\ state["score"] = 5
        /\ prog = S02 => pc = "improver"
        /\ prog = PS05 => pc = (IF state["iterations"] >= 2 THEN "END" ELSE "optimiser")

C6_Witness ==
    /\ prog = PS05 /\ prompt.node = "evaluator"
    /\ response = <<"8", "/", "1", "0">>
    /\ state["score"] = 5 /\ pc = "optimiser"

\* the aggregate score of an evaluation: the minimum of its criteria
MinCriterion(e) ==
    SeqMin(<<e.overall_score, e.security_score, e.performance_score,
             e.maintainability_score>>)

\* C7: in solution/05_evaluator_optimisr a run that is finalised under the cap
\* and without the evaluator's stop flag has the minimum of its four criterion
\* scores at 8 or more.

C7_FinaliseOnMinimum ==
    (prog = S05R /\ pc = "finalise" /\ state["iteration_count"] < 5
        /\ state["current_evaluation"]["should_continue"]) =>
        MinCriterion(state["current_evaluation"]) >= 8

\* C8: in the workflows with a finalise node, final_code is the code written by
\* the last generator / optimiser call of the run, and it is the code that the
\* last evaluation scored.
C8_FinalIsMostRecent ==
    (prog \in {P05, S05R, S05} /\ pc = "END") =>
        /\ state["final_code"].id = nGen + nOpt
        /\ state["final_code"] = state["code"]
        /\ prompt.node = "evaluator" /\ prompt.code = state["final_code"]

C8_Witness ==
    /\ prog = P05 /\ pc = "END" /\ nOpt = 2
    /\ state["final_code"].id = 3 /\ prompt.code.id = 3

\* a routing decision has been taken on the current code and nothing has been
\* written since
Decided == pc \in {"optimiser", "improver", "finalise", "END"}

\* C9: in every variant, a continue / finalise decision stands on an evaluation
\* of the current code: when a decision has been taken the evaluator has been
\* called once for each generator / optimiser call and its last call scored the
\* latest code; while an evaluation is due exactly one code version, the latest,
\* is unscored.

C9_EvaluateThenDecide ==
    /\ Decided =>
        /\ nEval = nGen + nOpt
        /\ prompt.node = "evaluator"
        /\ prompt.code = state["code"]
        /\ prompt.code.id = nGen + nOpt
    /\ pc = "evaluator" =>
        /\ nEval + 1 = nGen + nOpt
        /\ prompt.node # "evaluator"
        /\ state["code"].id = nGen + nOpt

C9_Witness ==
    /\ prog = PS05 /\ pc = "END" /\ nOpt = 2 /\ nEval = 3
    /\ prompt.node = "evaluator" /\ prompt.code.id = 3

\* C10: in patterns/05_evaluator_optimiser and solution/05_evaluator_optimisr the
\* k-th optimiser call is given the feedback of the k-th evaluation together with
\* the code that evaluation scored.
C10_LatestFeedback ==
    (prog \in {P05, S05R}) =>
        /\ pc = "optimiser" =>
            /\ state["current_evaluation"]["feedback"] = [eval |-> nEval]
            /\ nEval = nOpt + 1
            /\ state["code"].id = nEval
        /\ prompt.node = "optimiser" =>
            /\ prompt.feedback = [eval |-> nOpt]
            /\ prompt.code.id = nOpt

C10_Witness ==
    /\ prog = S05R /\ prompt.node = "optimiser" /\ nOpt = 5
    /\ prompt.feedback = [eval |-> 5]

-----------------------------------------------------------------------------
(* Properties of the production-ready workflows *)

RetryCount == Get(state, "retry_count", 0)

C11_RetryBounds ==
    prog = P07 =>
        /\ Executions("handle_errors") <= P07_MAX_RETRIES
        /\ Executions("coder") <= P07_MAX_RETRIES + 1

\* C11: in patterns/07_production_ready, whatever the coder, reviewer and approval
\* calls return, handle_errors runs at most 3 times and the coder at most 4 times,
\* retry_count never decreases, and the run reaches the finalise node.
C11_RetriesBounded ==
    /\ []C11_RetryBounds
    /\ [][prog = P07 => RetryCount' >= RetryCount]_vars
    /\ ((prog = P07) => <>(pc = "finalise"))

C11_Witness ==
    /\ prog = P07 /\ pc = "finalise"
    /\ Executions("handle_errors") = P07_MAX_RETRIES
    /\ Executions("coder") = P07_MAX_RETRIES + 1

\* the outcomes of the coder's executions, in order
CoderOutcomes ==
    LET IsCoder(e) == e.node = "coder"
        runs == SelectSeq(log, IsCoder)
    IN  [i \in DOMAIN runs |-> runs[i].outcome]

\* some two coder executions in a row have both failed
TwoCoderFailuresInARow ==
    \E k \in 1 .. (Len(CoderOutcomes) - 1) :
        CoderOutcomes[k] = "failed" /\ CoderOutcomes[k + 1] = "failed"

\* C12: in solution/07_production_ready, once two coder executions in a row have
\* failed, the coder is not run a third time and the run goes to manual_review:
\* it does not go on to the automated approval, the human approval or finalise,
\* and when it ends, manual_review has run.
C12_BreakerTrips ==
    (prog = S07 /\ TwoCoderFailuresInARow) =>
        /\ \A k \in 1 .. (Len(CoderOutcomes) - 1) :
              (CoderOutcomes[k] = "failed" /\ CoderOutcomes[k + 1] = "failed")
                  => Len(CoderOutcomes) = k + 1
        /\ pc \notin {"approval", "human_approval", "finalise", "RAISED"}
        /\ (pc = "END" => Executions("manual_review") = 1)

\* C13: in patterns/07_production_ready no node raises, whatever LLM calls fail
\* (a coder that fails on every attempt included): the run never ends with an
\* exception raised to the caller of workflow.invoke.
C13_NeverRaises == prog = P07 => pc # "RAISED"

\* C14: in patterns/07_production_ready the finalise step, which stamps the code
\* "Quality checks: Passed", runs only in states where approved is True.
C14_FinaliseOnlyApproved ==
    (prog = P07 /\ pc = "finalise") => Get(state, "approved", FALSE)

\* the retry counter of the workflow state
RetryCounter == IF prog = SI06 THEN Get(state, "retries", 0) ELSE RetryCount

\* number of rejections by the approver so far
Rejections ==
    Cardinality({i \in DOMAIN log : log[i].outcome = "rejected"})

\* C15: in patterns/06_production_ready and simple/06_production_ready, when the
\* coder succeeds every time and the approver rejects, the retry counter has
\* advanced when the coder is run again, and the number of coder calls of a run
\* stays below every bound placed on it (the storm ends by itself).
C15_NoRetryStorm ==
    prog \in {P06, SI06} =>
        /\ ( /\ pc = "coder"
             /\ Rejections > 0
             /\ \A i \in DOMAIN CoderOutcomes : CoderOutcomes[i] = "ok" )
           => RetryCounter > 0
        /\ Executions("coder") < MaxCalls

-----------------------------------------------------------------------------
(* Properties of the audit trail *)

\* C18: for a result of patterns/05_evaluator_optimiser, the completion reason
\* written by EvaluatorCodebase is "Max iterations reached" exactly when the run
\* was finalised by the iteration cap, and "Quality threshold reached" exactly
\* when it was finalised under the cap with a score that met the threshold 8.
C18_ReasonMatches ==
    (prog = P05 /\ Truthy(report)) =>
        /\ (report.completion_reason = "Max iterations reached")
               <=> (IterationCount >= P05_MAX_ITERATIONS)
        /\ (report.completion_reason = "Quality threshold reached")
               <=> ( /\ IterationCount < P05_MAX_ITERATIONS
                     /\ Get(CurrentEvaluation, "score", 0) >= P05_QUALITY_THRESHOLD )

-----------------------------------------------------------------------------
(* Properties of the first evaluation and of the scores *)

\* the states a run of program p can be in after its first evaluation
FirstEvaluations(p) ==
    CASE p = P05 ->
            LET g == Merge(InitialState, P05_code_generator(InitialState, NewCode))
            IN  {Merge(g, P05_evaluator_agent(g, r)) : r \in P05_EvaluationResponses}
      [] p = S05R ->
            LET g == Merge(InitialState, S05R_code_generator(InitialState, NewCode))
            IN  {Merge(g, S05R_evaluator_agent(g, r)) : r \in S05R_EvaluationResponses}
      [] p = S05 ->
            UNION { LET g == Merge(InitialState, S05_code_generator(InitialState, c))
                    IN  {Merge(g, S05_evaluator_agent(g, r)) : r \in S05_EvaluationResponses}
                    : c \in S05_CodeResponses }
      [] p = PS05 ->
            LET g == Merge(InitialState, PS05_generator(InitialState, NewCode))
            IN  {Merge(g, PS05_evaluator(g, r)) : r \in ScoreTexts}
      [] p = S02 ->
            LET g == Merge(InitialState, S02_coder(InitialState, NewCode))
            IN  {Merge(g, S02_evaluator(g, r)) : r \in ScoreTexts}

\* the evaluation in state s meets the quality threshold of program p
MeetsThreshold(p, s) ==
    LET e == Get(s, "current_evaluation", EmptyDict) IN
    CASE p = P05  -> Get(e, "score", 0) >= P05_QUALITY_THRESHOLD
      [] p = S05R -> Get(e, "overall_score", 0) >= S05R_quality_threshold
      [] p = S05  -> /\ Get(e, "quality_score", 0) >= S05_QUALITY_THRESHOLD
                     /\ Get(e, "complexity_score", 0) >= S05_COMPLEXITY_THRESHOLD
      [] p = PS05 -> Get(s, "score", 0) >= PS05_QUALITY_THRESHOLD
      [] p = S02  -> Get(s, "score", 0) >= S02_QUALITY_THRESHOLD

\* the node program p runs after an evaluation that left the state s
AfterEvaluation(p, s) ==
    CASE p = P05  -> P05_builder("evaluator", s)
      [] p = S05R -> S05R_builder("evaluator", s)
      [] p = S05  -> S05_builder("evaluator", s)
      [] p = PS05 -> PS05_builder("evaluator", s)
      [] p = S02  -> S02_builder("evaluator", s)

RefinementNodes == {"optimiser", "improver"}

ForcesRefinement(p) ==
    \A s \in FirstEvaluations(p) :
        MeetsThreshold(p, s) => AfterEvaluation(p, s) \in RefinementNodes

EndsImmediately(p) ==
    \A s \in FirstEvaluations(p) :
        MeetsThreshold(p, s) => AfterEvaluation(p, s) \notin RefinementNodes

\* C19 as stated: among patterns/05, solution/05_evaluator_optimiser,
\* solution/05_evaluator_optimisr, patterns_simple/05 and simple/02 at least one
\* variant sends a first evaluation that meets the threshold to a refinement
\* pass, and at least one other ends the run on it.
C19_BothBehavioursOccur ==
    \E p, q \in Programs :
        p # q /\ ForcesRefinement(p) /\ EndsImmediately(q)

\* C19: in every one of the five variants, a first evaluation that meets the
\* quality threshold ends the refinement loop at once: no refinement pass is run.
C19_EveryVariantEndsImmediately ==
    ( /\ prog \in Programs
      /\ nEval = 1 /\ Decided
      /\ MeetsThreshold(prog, state) )
        => /\ pc \notin RefinementNodes
           /\ nOpt = 0

C19_Witness ==
    /\ prog = PS05
    /\ nEval = 1 /\ pc = "END"
    /\ MeetsThreshold(prog, state)
    /\ nOpt = 0

\* the score the evaluator has written to the workflow state, if any
WrittenScores ==
    LET e == CurrentEvaluation IN
    CASE prog = P05  -> IF "score" \in DOMAIN e THEN {e["score"]} ELSE {}
      [] prog = S05R -> IF "overall_score" \in DOMAIN e THEN {e["overall_score"]} ELSE {}
      [] prog = S05  -> IF "quality_score" \in DOMAIN e THEN {e["quality_score"]} ELSE {}
      [] prog \in {PS05, S02} -> IF "score" \in DOMAIN state THEN {state["score"]} ELSE {}
      [] OTHER -> {}

\* C20: the score that the evaluator writes to the workflow state is an integer
\* in 1..10, whatever the evaluator's response, also where it is parsed from text.
C20_ScoresInRange ==
    \A sc \in WrittenScores : sc \in MIN_SCORE .. MAX_SCORE

-----------------------------------------------------------------------------
(* Properties of the workflows with parallel branches *)

\* the agents fanned out after the coder, and the node that joins them
FanOut(p) == IF p = P03 THEN P03_builder("coder") ELSE PS03_builder("coder")
Join(p) == IF p = P03 THEN "synthesis" ELSE "synthesis_agent"

\* the positions in the log at which a node ran
Runs(node) == {i \in DOMAIN log : log[i].node = node}

\* the analyses in the arguments of the synthesis call are the ones the fanned-out
\* agents wrote about the code of this run
ReadsEachAnalysis ==
    IF prog = P03
    THEN /\ prompt.security = AnalysisOf("security_agent", state["code"])
         /\ prompt.performance = AnalysisOf("performance_agent", state["code"])
         /\ prompt.style = AnalysisOf("style_agent", state["code"])
    ELSE prompt.combined = << AnalysisOf("security_check", state["code"]),
                              AnalysisOf("performance_check", state["code"]) >>

\* C16: in patterns/03_parallel_processing and patterns_simple/03, in whatever
\* order the parallel agents return, synthesis runs at most once and exactly once
\* in a run that ends, it runs only after every fanned-out agent has returned,
\* and its LLM call is given the analysis written by each of them.
C16_FanInJoin ==
    prog \in {P03, PS03} =>
        /\ Cardinality(Runs(Join(prog))) <= 1
        /\ (pc = "END" => Cardinality(Runs(Join(prog))) = 1)
        /\ (Join(prog) \in active => active = {Join(prog)})
        /\ \A i \in Runs(Join(prog)) :
              /\ log[i].outcome # "KeyError"
              /\ \A a \in FanOut(prog) :
                    \E j \in 1 .. (i - 1) : log[j].node = a /\ log[j].outcome = "ok"
              /\ prompt.node = Join(prog) /\ ReadsEachAnalysis

C16_Witness ==
    /\ prog = P03 /\ pc = "END"
    /\ Cardinality(Runs("synthesis")) = 1
    /\ log[2].node = "style_agent"
    /\ log[4].node = "security_agent"

\* the names of the parallel agents whose call failed
FailedNames ==
    {a.name : a \in {b \in S03_Agents :
                        \E i \in Runs(b.node) : log[i].outcome = "failed"}}

\* how many times x occurs in a list
Occurrences(x, list) == Cardinality({i \in DOMAIN list : list[i] = x})

\* C17: in solution/03_parallel_processing, once the four parallel agents have
\* returned, whichever of them failed, the step has ended without an error and
\* failed_agents holds the name of each failed agent once and no other name.
C17_FailedAgentsExact ==
    (prog = S03 /\ \A a \in S03_Agents : Runs(a.node) # {}) =>
        /\ ~(pc = "RAISED" /\ log[Len(log)].node \in {a.node : a \in S03_Agents})
        /\ \A a \in S03_Agents :
              Occurrences(a.name, Get(state, "failed_agents", <<>>))
                  = IF a.name \in FailedNames THEN 1 ELSE 0


-----------------------------------------------------------------------------
(* Properties of the approval gates and of the retry loops *)

\* C22: in solution/07_production_ready, once retry_count has reached 3 the next
\* approval decision forces completion: whatever the agent decides (and whether
\* the code is critical or not), the run does not go back to handle_errors, and
\* the number of coder calls of a run stays below every bound placed on it.
C22_ForcedCompletion ==
    /\ [][(prog = S07 /\ pc = "approval" /\ RetryCount >= S07_MAX_RETRIES)
              => pc' # "handle_errors"]_vars
    /\ [](prog = S07 => Executions("coder") < MaxCalls)


\* C23: in solution/07_production_ready, started from the state of its main
\* block, critical code (needs_human_approval) that the automated approval agent
\* approves is passed to the human approver next; finalise is entered with
\* critical code only when human_approved is True; and a decision of the human
\* approver that leaves human_approved False is never followed by finalise.
C23_HumanGate ==
    /\ [][( /\ prog = S07 /\ pc = "approval"
            /\ Get(state', "needs_human_approval", FALSE)
            /\ Get(state', "approved", FALSE) )
              => pc' = "human_approval"]_vars
    /\ []((prog = S07 /\ pc = "finalise" /\ Get(state, "needs_human_approval", FALSE))
              => Get(state, "human_approved", FALSE))
    /\ [][( /\ prog = S07 /\ pc = "human_approval"
            /\ ~Get(state', "human_approved", FALSE) )
              => pc' # "finalise"]_vars


\* some coder execution that succeeded is directly followed by another coder
\* execution after at least one rejection, with only handle_errors in between
ReviewSkipped ==
    \E i \in DOMAIN log :
        /\ log[i].node = "coder" /\ log[i].outcome = "ok"
        /\ \E j \in 1 .. (i - 1) : log[j].outcome = "rejected"
        /\ \E k \in (i + 1) .. Len(log) :
              /\ log[k].node = "coder"
              /\ \A m \in (i + 1) .. (k - 1) : log[m].node \notin {"reviewer", "approval"}

\* C24: in patterns/07_production_ready, after an approval rejection every
\* successful coder execution is followed by reviewer and approval before the
\* coder is executed again, and a successful coder execution is never directly
\* sent to handle_errors.
C24_ReviewedBeforeReplaced ==
    prog = P07 =>
        /\ ~ReviewSkipped
        /\ (Len(log) > 0 /\ log[Len(log)] = [node |-> "coder", outcome |-> "ok"]
                => pc = "reviewer")


-----------------------------------------------------------------------------
(* Properties of the plateau detection *)

RECURSIVE S05_AfterEvaluations(_)
\* the states a run of solution/05_evaluator_optimiser can be in when the router
\* decides after its k-th evaluation
S05_AfterEvaluations(k) ==
    IF k = 1 THEN FirstEvaluations(S05)
    ELSE UNION { UNION { LET o == Merge(s, S05_optimiser_agent(s, c))
                         IN  {Merge(o, S05_evaluator_agent(o, r)) :
                                  r \in S05_EvaluationResponses}
                         : c \in S05_CodeResponses }
                 : s \in {t \in S05_AfterEvaluations(k - 1) :
                              S05_builder("evaluator", t) = "optimiser"} }

\* The iteration cap, the stop flag and the thresholds would let the run go on
\* from state s.
S05_WouldContinue(s) ==
    S05_should_continue_optimisation([s EXCEPT !["plateau_count"] = 0]) = "optimise"

\* C27: in solution/05_evaluator_optimiser there are runs that the plateau rule
\* ends early: after some evaluation plateau_count is at least 2 while
\* iteration_count is below the cap of 3, and the router answers finalise
\* although the cap, the stop flag and the thresholds would let the run go on.
C27_PlateauEndsEarly ==
    \E k \in 1 .. (S05_MAX_ITERATIONS + 1) :
        \E s \in S05_AfterEvaluations(k) :
            /\ Get(s, "plateau_count", 0) >= S05_PLATEAU_LIMIT
            /\ Get(s, "iteration_count", 0) < S05_MAX_ITERATIONS
            /\ S05_WouldContinue(s)
            /\ S05_builder("evaluator", s) = "finalise"


-----------------------------------------------------------------------------
(* Properties of the fallback protection *)

\* C28: in solution/03_parallel_processing synthesis runs at most once, and only
\* after the four parallel agents and, when one of them failed, after
\* general_fallback; in a run that ends, synthesis has run exactly once and
\* general_fallback has run exactly when some agent failed.
C28_SingleSynthesis ==
    prog = S03 =>
        /\ Cardinality(Runs("synthesis")) <= 1
        /\ \A i \in Runs("synthesis") :
              /\ \A a \in S03_Agents : \E j \in 1 .. (i - 1) : log[j].node = a.node
              /\ FailedNames # {} =>
                    \E j \in 1 .. (i - 1) : log[j].node = "general_fallback"
        /\ pc = "END" =>
              /\ Cardinality(Runs("synthesis")) = 1
              /\ (Runs("general_fallback") # {}) <=> (FailedNames # {})


-----------------------------------------------------------------------------
(* Properties of the workflows with error recovery *)

\* C21: in solution/06_production_ready every run ends at finalise: the number
\* of coder calls of a run stays below every bound placed on it; code that the
\* coder regenerates after a human rejection goes to the reviewer; and once
\* retry_count has reached 3 the decision of the human approver ends the run.
C21_RunEnds ==
    /\ [](prog = S06 => Executions("coder") < MaxCalls)
    /\ [][( /\ prog = S06 /\ pc = "coder"
            /\ Rejections > 0
            /\ ~response'.raised )
              => pc' = "reviewer"]_vars
    /\ [][( /\ prog = S06 /\ pc = "human_approval"
            /\ RetryCount >= S06_MAX_RETRIES )
              => pc' = "finalise"]_vars


-----------------------------------------------------------------------------
(* Properties of the circuit breaker and of the rollback *)

\* C25: in solutions/07_production_ready_solution, whatever the LLM calls
\* return, handle_errors runs at most 2 times and the coder at most 3 times; an
\* approval decision that leaves approved False with failure_streak >= 2 or
\* retry_count >= 3 is followed by manual_review; no node raises; and every run
\* ends after finalise has run.
C25_BoundedAndEnds ==
    /\ [](prog = SS07 =>
            /\ Executions("handle_errors") <= 2
            /\ Executions("coder") <= 3
            /\ pc # "RAISED")
    /\ [][( /\ prog = SS07 /\ pc = "approval"
            /\ ~Get(state', "approved", FALSE)
            /\ \/ Get(state', "failure_streak", 0) >= SS07_STREAK_LIMIT
               \/ Get(state', "retry_count", 0) >= SS07_MAX_RETRIES )
              => pc' = "manual_review"]_vars
    /\ (prog = SS07 => <>(pc = "END" /\ Executions("finalise") = 1))

C25_Witness ==
    /\ prog = SS07 /\ pc = "END"
    /\ Executions("handle_errors") = 2
    /\ Executions("coder") = 3
    /\ Executions("manual_review") = 1
    /\ Get(state, "failure_streak", 0) = 0
    /\ \E i \in DOMAIN log : log[i].node = "approval" /\ log[i].outcome = "rejected"


\* the code in the state after the last node has run is a version that the
\* approval agent has approved earlier in the run
ApprovedEarlier ==
    /\ \E i \in DOMAIN log : log[i].node = "approval" /\ log[i].outcome = "approved"
    /\ "last_approved_code" \in DOMAIN state
    /\ state["code"] = state["last_approved_code"]

\* C26: in solutions/07_production_ready_solution, when handle_errors or
\* manual_review has replaced the code by the rollback value, the code in the
\* state is a version that the approval agent approved earlier in the run, and
\* it is never the empty artifact.
C26_RollbackRestoresApproved ==
    ( /\ prog = SS07
      /\ Len(log) > 0
      /\ \/ log[Len(log)].node = "handle_errors"
         \/ ( /\ log[Len(log)].node = "manual_review"
              /\ "last_approved_code" \in DOMAIN state ) )
        => /\ ApprovedEarlier
           /\ state["code"] # EmptyArtifact


-----------------------------------------------------------------------------
(* The orchestrator-worker workflow *)

OW_Next ==
    \/ OW_orchestrator
    \/ OW_worker
    \/ OW_track_completion_node
    \/ OW_create_workers_node_run
    \/ OW_validation
    \/ OW_synthesis

Orchestrator == Invoke({OW06}) /\ [][OW_Next]_vars


-----------------------------------------------------------------------------
(* Properties of the orchestrator-worker workflow *)

\* the positions in the log at which the worker of the subtask at position i ran
WorkerRuns(i) == {k \in DOMAIN log : log[k].node = "worker" /\ log[k].subtask = i}

Completed == Get(state, "completed_subtasks", <<>>)

\* C29: in solution/06_orchestrator_worker, every subtask for which a worker has
\* been dispatched in the current step has all the names of its dependencies in
\* completed_subtasks, and no subtask is dispatched to a worker more than once
\* in a run: a subtask whose worker is waiting has had none before, and none has
\* had two.
C29_DependencyOrderedDispatch ==
    prog = OW06 =>
        /\ \A i \in DOMAIN writes :
              /\ writes[i].arg.subtask = state["subtasks"][i]
              /\ \A d \in DOMAIN state["subtasks"][i].dependencies :
                    InList(state["subtasks"][i].dependencies[d], Completed)
              /\ ~writes[i].returned => WorkerRuns(i) = {}
        /\ \A i \in DOMAIN Get(state, "subtasks", <<>>) : Cardinality(WorkerRuns(i)) <= 1

C29_Witness ==
    /\ prog = OW06 /\ pc = "RUNNING" /\ active = {"worker"}
    /\ Executions("create_workers_node") = 1
    /\ \E i \in DOMAIN writes :
          /\ ~writes[i].returned
          /\ state["subtasks"][i].dependencies # <<>>
          /\ \E j \in DOMAIN state["subtasks"] : j # i /\ WorkerRuns(j) # {}


\* C30: in solution/06_orchestrator_worker a name is in completed_subtasks only
\* if the worker dispatched for a subtask of that name has run and returned its
\* output, also when the name is part of another subtask's name or occurs in
\* the output of another subtask's worker.
C30_CompletedByOwnWork ==
    prog = OW06 =>
        \A c \in DOMAIN Completed :
            \E i \in DOMAIN state["subtasks"] :
                /\ state["subtasks"][i].name = Completed[c]
                /\ \E k \in WorkerRuns(i) : log[k].outcome = "ok"


\* C31: in solution/06_orchestrator_worker, whenever the validation node is to
\* run or has run, all work is done: the name of every subtask is in
\* completed_subtasks and completed >= total (check_completion), whatever the
\* dependencies are (cyclic, or naming no subtask).
C31_ValidationAfterAllWork ==
    (prog = OW06 /\ (active = {"validation"} \/ Executions("validation") > 0)) =>
        /\ OW_check_completion(state)
        /\ \A i \in DOMAIN state["subtasks"] : InList(state["subtasks"][i].name, Completed)


\* the dispatch rounds of the run so far: the worker steps that have ended and
\* the one that is running
DispatchRounds ==
    Executions("track_completion") + (IF active = {"worker"} THEN 1 ELSE 0)

\* C32: in solution/06_orchestrator_worker, for every list of subtasks the
\* orchestrator returns, the number of dispatch rounds is at most the number of
\* subtasks, and a run that ends without an exception has executed validation
\* and synthesis and has set final_result.
C32_EndsThroughSynthesis ==
    prog = OW06 =>
        /\ DispatchRounds <= Len(Get(state, "subtasks", <<>>))
        /\ pc = "END" =>
              /\ Executions("validation") = 1
              /\ Executions("synthesis") = 1
              /\ "final_result" \in DOMAIN state

====
